---- MODULE Spec2Model ----
(***************************************************************************)
(* Drill Press toolpath engine (DrillToolpath), the OpenSBP utilities of   *)
(* CobotCore it calls, and the host state they read.                       *)
(*                                                                         *)
(* Numbers.  A JavaScript number is modelled as a rational n / (d * Unit): *)
(* n an integer, d >= 1, Unit = 10^4, so that 1.0 is n = 10000, d = 1 and  *)
(* a value can carry more than three decimals.  NaN and undefined (an      *)
(* absent field) are values of their own.  Arithmetic is exact; the inputs *)
(* of the model are numbers on which IEEE doubles agree with it.           *)
(*                                                                         *)
(* Text.  A program is a sequence of lines; a line is a record             *)
(* [kind, op, args, note] and each numeric field of a line is an Arg that  *)
(* records how the text was produced: by toFixed(3), as the reference      *)
(* %(safeZ), by raw template interpolation, or as a literal.               *)
(***************************************************************************)
EXTENDS Integers, Sequences, FiniteSets, TLC

VARIABLES
    heap,      \* hole objects: reference -> [x, y, diameter, depth, type, number]
    holes,     \* the caller's hole array: a sequence of references into heap
    config,    \* the caller's DrillConfig object
    storage,   \* localStorage: the persisted global settings and datum
    clock,     \* wall-clock time read by new Date()
    limit,     \* number of engine calls the caller makes in this run
    ncalls,    \* number of engine calls made so far
    ret,       \* outcome of the last engine call
    prev,      \* outcome of the engine call before the last
    optLog,    \* history of optimizeOrder calls: <<input, output>> pairs
    ui         \* DrillPressUI fields and what the last UI handler did

vars == <<heap, holes, config, storage, clock, limit, ncalls, ret, prev, optLog, ui>>

-----------------------------------------------------------------------------
(* Bounds of the model *)

MaxHoles == 3       \* longest hole list of the tour-optimization runs
MaxGenHoles == 2    \* longest hole list of the program-generation runs
MaxCalls == 3       \* engine calls in one tour-optimization run
MaxGenCalls == 1    \* engine calls in one program-generation or validation run
MaxLoaded == 1      \* holes restored from the saved application state
MaxUIHoles == 7     \* holes in the list of the UI
MaxUISteps == 3     \* handlers run in one UI session with programs
MaxEdits == 4       \* handlers run in one UI session of edits

-----------------------------------------------------------------------------
(* JavaScript values *)

Unit == 10 ^ 4

Num(n) == [t |-> "num", n |-> n, d |-> 1]
Ratio(n, d) == [t |-> "num", n |-> n, d |-> d]
NaN == [t |-> "nan", n |-> 0, d |-> 1]

RECURSIVE Gcd(_, _)
Gcd(a, b) == IF b = 0 THEN a ELSE Gcd(b, a % b)

\* the number n / (d * Unit) in lowest terms (d >= 1)
Reduced(n, d) ==
    LET g == Gcd(IF n < 0 THEN -n ELSE n, d)
    IN  [t |-> "num", n |-> n \div g, d |-> d \div g]
Undefined == [t |-> "undefined", n |-> 0, d |-> 1]

\* the one element of a singleton set {e}: e is computed once for all its uses
Only(S) == CHOOSE v \in S : TRUE

IsNum(v) == v.t = "num"

\* ToBoolean: undefined, NaN and 0 are falsy
Truthy(v) == IsNum(v) /\ v.n # 0

\* a || b
Or(a, b) == IF Truthy(a) THEN a ELSE b

\* ToNumber(undefined) is NaN
ToNumber(v) == IF IsNum(v) THEN v ELSE NaN

AbsInt(i) == IF i < 0 THEN -i ELSE i

\* Math.abs(v)
MathAbs(v) == IF IsNum(v) THEN Ratio(AbsInt(v.n), v.d) ELSE NaN

\* unary minus
Negate(v) == IF IsNum(v) THEN Ratio(-v.n, v.d) ELSE NaN

\* a <= b, a < b, a > b: false as soon as one side is NaN or undefined
LessEq(a, b) == IsNum(a) /\ IsNum(b) /\ a.n * b.d <= b.n * a.d
Less(a, b) == IsNum(a) /\ IsNum(b) /\ a.n * b.d < b.n * a.d
Greater(a, b) == Less(b, a)

-----------------------------------------------------------------------------
(* Program text *)

\* One field of a line.  k says how the text was produced:
\*   "fixed"     Number.prototype.toFixed: sign, n = the digits as an integer,
\*               d = the number of decimals   (neg, n = 1250, d = 3 is "-1.250")
\*   "NaN"       toFixed of NaN, the text "NaN"
\*   "TypeError" toFixed of undefined: the call throws
\*   "sym"       a reference to a declared OpenSBP variable, %(s)
\*   "raw"       template interpolation ${value} of the number n / (d * Unit)
\*               (s = "nan" / "undefined" for those values)
\*   "int"       template interpolation of the integer n
\*   "lit"       the literal text s
MkArg(k, neg, n, d, s) == [k |-> k, neg |-> neg, n |-> n, d |-> d, s |-> s]

TypeErrorArg == MkArg("TypeError", FALSE, 0, 0, "")
Sym(name) == MkArg("sym", FALSE, 0, 0, name)
Raw(v) == MkArg("raw", FALSE, v.n, v.d, v.t)
IntArg(i) == MkArg("int", FALSE, i, 0, "")
Lit(s) == MkArg("lit", FALSE, 0, 0, s)

\* value.toFixed(decimals), a TypeError on undefined and null: round |value| to the nearest multiple of
\* 10^-decimals (the larger one on a tie) and keep the sign of value
ToFixed(v, decimals) ==
    IF v.t \in {"undefined", "null"} THEN TypeErrorArg
    ELSE IF v.t = "nan" THEN MkArg("NaN", FALSE, 0, 0, "NaN")
    ELSE MkArg("fixed", v.n < 0,
               (2 * AbsInt(v.n) * (10 ^ decimals) + v.d * Unit) \div (2 * v.d * Unit),
               decimals, "")

\* parseFloat of a text produced by toFixed
ParseFloat(a) ==
    IF a.k = "fixed"
    THEN Reduced((IF a.neg THEN -a.n ELSE a.n) * Unit, 10 ^ a.d)
    ELSE NaN

\* a + b
Plus(a, b) ==
    IF IsNum(a) /\ IsNum(b) THEN Ratio(a.n * b.d + b.n * a.d, a.d * b.d) ELSE NaN

\* CobotCore.formatSBPNumber(value), decimals defaulted to 3
FormatSBPNumber(value) == ToFixed(value, 3)

MkLine(kind, op, args, note) == [kind |-> kind, op |-> op, args |-> args, note |-> note]
Comment(op, args, note) == MkLine("comment", op, args, note)
Decl(name, arg) == MkLine("decl", name, <<arg>>, "")
Instr(op, args, note) == MkLine("instr", op, args, note)
Blank == MkLine("blank", "", <<>>, "")

\* lines.join('\n') over blocks that are themselves joined lines
RECURSIVE Join(_)
Join(blocks) ==
    IF blocks = <<>> THEN <<>> ELSE Head(blocks) \o Join(Tail(blocks))

\* a toFixed call on undefined or null anywhere in the text aborts its construction
Throws(lines) ==
    \E i \in 1..Len(lines) :
        \E j \in 1..Len(lines[i].args) : lines[i].args[j].k = "TypeError"

-----------------------------------------------------------------------------
(* CobotCore: settings *)

AppName == "Drill Press"
AppVersion == "1.0.0"

\* cobot.config.opensbp.safeZ of the FabMo machine configuration: not set
MachineSafeZ == Undefined

DefaultSpindleStartupTime == 3

\* CobotCore._getDefaultGlobalSettings
GetDefaultGlobalSettings ==
    [safeZ |-> Or(MachineSafeZ, Num(Unit \div 2)),
     spindleStartupTime |-> Num(DefaultSpindleStartupTime * Unit),
     feedRate |-> Num(2 * Unit),
     plungeRate |-> Num(Unit \div 2)]

\* Object.assign(defaults, stored): a stored key overrides the default
Assign(defaults, stored) ==
    [key \in DOMAIN defaults |->
        IF stored[key].t = "undefined" THEN defaults[key] ELSE stored[key]]

\* CobotCore.getGlobalSettings: the stored settings merged over the defaults
GetGlobalSettings(st) ==
    IF ~st.hasSettings THEN GetDefaultGlobalSettings
    ELSE Assign(GetDefaultGlobalSettings, st.settings)

-----------------------------------------------------------------------------
(* CobotCore: OpenSBP utilities *)

\* CobotCore.generateSBPHeader(description, options); description is the
\* hole count of "Drilling n hole(s)", now the time new Date() reads
GenerateSBPHeader(nholes, options, now) ==
    <<Comment("====", <<>>, ""),
      Comment("CNC Cobot Workshop", <<>>, AppName),
      Comment("Drilling", <<IntArg(nholes)>>, "hole(s)"),
      Comment("====", <<>>, ""),
      Comment("Generated", <<IntArg(now)>>, ""),
      Comment("App Version", <<>>, AppVersion)>>
    \o (IF Truthy(options.materialThickness)
        THEN <<Comment("Material Thickness", <<Raw(options.materialThickness)>>, "in")>>
        ELSE <<>>)
    \o (IF Truthy(options.bitDiameter)
        THEN <<Comment("Bit Diameter", <<Raw(options.bitDiameter)>>, "in")>>
        ELSE <<>>)
    \o <<Comment("Notes", <<Raw(options.notesDepth)>>, options.notesType)>>
    \o <<Comment("", <<>>, "")>>

\* CobotCore.generateSBPFooter(options): the retract height is rendered into
\* the JZ line as a number; options.returnHome is absent in every call
GenerateSBPFooter(options, st) ==
    LET settings == GetGlobalSettings(st)
        safeZ == Or(options.safeZ, settings.safeZ)
        returnHome == options.returnHome # "false"
    IN  <<Blank,
          Comment("Cleanup", <<>>, ""),
          Instr("JZ", <<ToFixed(safeZ, 3)>>, "Return to safe Z"),
          Instr("C7", <<>>, "Spindle off")>>
        \o (IF returnHome
            THEN <<Instr("J2", <<Lit("0"), Lit("0")>>, "Return to home position")>>
            ELSE <<>>)
        \o <<Instr("END", <<>>, "")>>

-----------------------------------------------------------------------------
(* DrillToolpath: header and initialization *)

\* DrillToolpath._generateHeader
GenerateHeader(nholes, cfg, now) ==
    GenerateSBPHeader(nholes,
        [materialThickness |-> cfg.materialThickness,
         bitDiameter |-> cfg.diameter,
         notesType |-> cfg.type,
         notesDepth |-> cfg.depth],
        now)

\* DrillToolpath._generateInit
GenerateInit(cfg, settings) ==
    LET safeZ == Or(cfg.safeZ, settings.safeZ)
        feedRate == Or(cfg.feedRate, settings.feedRate)
        plungeRate == Or(cfg.plungeRate, settings.plungeRate)
    IN  <<Comment("=== Initialization ===", <<>>, ""),
          Decl("safeZ", FormatSBPNumber(safeZ)),
          Decl("plungeRate", FormatSBPNumber(plungeRate)),
          Decl("feedRate", FormatSBPNumber(feedRate)),
          Decl("depth", FormatSBPNumber(cfg.depth)),
          Blank,
          Instr("MS", <<FormatSBPNumber(feedRate), FormatSBPNumber(feedRate)>>, ""),
          Instr("VS", <<Lit(""), Lit(""), FormatSBPNumber(plungeRate)>>, ""),
          Blank,
          Instr("C9", <<>>, "Select tool"),
          Instr("C6", <<>>, "Start spindle"),
          Instr("PAUSE", <<Raw(settings.spindleStartupTime)>>, "Wait for spindle"),
          Blank,
          Instr("JZ", <<Sym("safeZ")>>, "Move to safe Z"),
          Blank>>

-----------------------------------------------------------------------------
(* DrillToolpath: per-hole operations *)

\* Variant of _generatePlungeHole that formats config.depth as given, without
\* -Math.abs: a positive depth then plunges upwards
GeneratePlungeHoleSigned(hole, cfg) ==
    <<Instr("J2", <<FormatSBPNumber(hole.x), FormatSBPNumber(hole.y)>>, "Position over hole"),
      Instr("MZ", <<FormatSBPNumber(ToNumber(cfg.depth))>>, "Plunge to depth"),
      Instr("JZ", <<Sym("safeZ")>>, "Retract to safe Z")>>

\* DrillToolpath._generatePlungeHole
GeneratePlungeHole(hole, cfg) ==
    LET x == FormatSBPNumber(hole.x)
        y == FormatSBPNumber(hole.y)
        depth == FormatSBPNumber(Negate(MathAbs(cfg.depth)))
    IN  <<Instr("J2", <<x, y>>, "Position over hole"),
          Instr("MZ", <<depth>>, "Plunge to depth"),
          Instr("JZ", <<Sym("safeZ")>>, "Retract to safe Z")>>

Infinity == [t |-> "inf", n |-> 1, d |-> 1]
MinusInfinity == [t |-> "inf", n |-> -1, d |-> 1]

\* v * 0.5
Half(v) == IF IsNum(v) THEN Ratio(v.n, 2 * v.d) ELSE NaN

\* Math.min(a, b): NaN as soon as one argument is not a number
MathMin(a, b) ==
    IF IsNum(a) /\ IsNum(b) THEN (IF Less(b, a) THEN b ELSE a) ELSE NaN

\* a / b for finite a, b: x / 0 is +-Infinity, 0 / 0 is NaN
Divide(a, b) ==
    IF ~(IsNum(a) /\ IsNum(b)) THEN NaN
    ELSE IF b.n = 0
         THEN (IF a.n > 0 THEN Infinity ELSE IF a.n < 0 THEN MinusInfinity ELSE NaN)
    ELSE IF b.n > 0 THEN Reduced(a.n * b.d * Unit, a.d * b.n)
    ELSE Reduced(-(a.n * b.d * Unit), a.d * (-b.n))

\* Math.ceil(v), as an integer number of units (Infinity and NaN stay)
MathCeil(v) ==
    IF IsNum(v) THEN Num(-((-v.n) \div (v.d * Unit)) * Unit) ELSE v

\* the integer k of a whole number k * Unit
WholeOf(v) == v.n \div (v.d * Unit)

\* Variant of the pass loop that steps down by the per-pass cap and ends
\* with a shallower remainder pass: currentDepth = -min(cap * pass, depth)
PocketPassAtCap(x, y, diameter, depth, numPasses, pass) ==
    LET cap == MathMin(Half(diameter), Num(Unit \div 4))
        stepped == IF IsNum(cap) THEN Ratio(cap.n * pass, cap.d) ELSE NaN
        currentDepth == Negate(MathMin(stepped, depth))
        spiralRadius == Half(diameter)
        circleX == FormatSBPNumber(Plus(ParseFloat(x), spiralRadius))
    IN  <<Comment("Depth pass", <<IntArg(pass), FormatSBPNumber(currentDepth)>>, ""),
          Instr("M2", <<x, y, FormatSBPNumber(currentDepth)>>, "")>>
        \o (IF Greater(spiralRadius, Num(0))
            THEN <<Instr("M2", <<circleX, y, Lit("")>>, ""),
                   Instr("CG", <<x, y, Lit("1"), Lit("0"), Lit("360"), Lit("1"),
                                 FormatSBPNumber(currentDepth)>>, "")>>
            ELSE <<>>)

\* Variant of the pass loop that retracts to safe Z at the end of every pass
PocketPassRetracting(x, y, diameter, depth, numPasses, pass) ==
    LET actualDepthPerPass == Divide(depth, numPasses)
        currentDepth == IF IsNum(actualDepthPerPass)
                        THEN Ratio(-(actualDepthPerPass.n * pass), actualDepthPerPass.d)
                        ELSE NaN
        spiralRadius == Half(diameter)
        circleX == FormatSBPNumber(Plus(ParseFloat(x), spiralRadius))
    IN  <<Comment("Depth pass", <<IntArg(pass), FormatSBPNumber(currentDepth)>>, ""),
          Instr("M2", <<x, y, FormatSBPNumber(currentDepth)>>, "")>>
        \o (IF Greater(spiralRadius, Num(0))
            THEN <<Instr("M2", <<circleX, y, Lit("")>>, ""),
                   Instr("CG", <<x, y, Lit("1"), Lit("0"), Lit("360"), Lit("1"),
                                 FormatSBPNumber(currentDepth)>>, "")>>
            ELSE <<>>)
        \o <<Instr("JZ", <<Sym("safeZ")>>, "Retract to safe Z")>>

\* the lines of depth pass `pass` out of numPasses (DrillToolpath._generatePocketHole,
\* body of the for loop)
PocketPass(x, y, diameter, depth, numPasses, pass) ==
    LET actualDepthPerPass == Divide(depth, numPasses)
        currentDepth == IF IsNum(actualDepthPerPass)
                        THEN Ratio(-(actualDepthPerPass.n * pass), actualDepthPerPass.d)
                        ELSE NaN
        spiralRadius == Half(diameter)
        circleX == FormatSBPNumber(Plus(ParseFloat(x), spiralRadius))
    IN  <<Comment("Depth pass", <<IntArg(pass), FormatSBPNumber(currentDepth)>>, ""),
          Instr("M2", <<x, y, FormatSBPNumber(currentDepth)>>, "")>>
        \o (IF Greater(spiralRadius, Num(0))
            THEN <<Instr("M2", <<circleX, y, Lit("")>>, ""),
                   Instr("CG", <<x, y, Lit("1"), Lit("0"), Lit("360"), Lit("1"),
                                 FormatSBPNumber(currentDepth)>>, "")>>
            ELSE <<>>)

\* DrillToolpath._generatePocketHole.  The for loop runs pass = 1, 2, ... while
\* pass <= numPasses: never when numPasses is NaN or below 1, for ever when
\* numPasses is Infinity (the call then never returns: diverges).
GeneratePocketHole(hole, cfg) ==
    LET x == FormatSBPNumber(hole.x)
        y == FormatSBPNumber(hole.y)
        diameter == cfg.diameter
        depth == MathAbs(cfg.depth)
        depthPerPass == MathMin(Half(diameter), Num(Unit \div 4))
        numPasses == MathCeil(Divide(depth, depthPerPass))
        count == IF IsNum(numPasses) /\ WholeOf(numPasses) >= 1
                 THEN WholeOf(numPasses) ELSE 0
    IN  [diverges |-> numPasses = Infinity,
         lines |->
            <<Comment("Pocket hole", <<Raw(numPasses)>>, "depth passes"),
              Instr("J2", <<x, y>>, "Move to center")>>
            \o Join([pass \in 1..count |->
                        PocketPass(x, y, diameter, depth, numPasses, pass)])
            \o <<Instr("J2", <<x, y>>, "Return to center"),
                 Instr("JZ", <<Sym("safeZ")>>, "Retract to safe Z")>>]

\* Variant of _generateCounterboreHole that hands the base config to the
\* pocket instead of cbConfig
GenerateCounterboreHoleBase(hole, cfg) ==
    LET pilot == <<Comment("Drilling pilot hole", <<>>, "")>>
                 \o GeneratePlungeHole(hole, cfg)
        pocket == GeneratePocketHole(hole, cfg)
    IN  IF Truthy(cfg.cbDiameter) /\ Truthy(cfg.cbDepth)
        THEN [diverges |-> pocket.diverges,
              lines |-> pilot \o <<Blank, Comment("Counterbore pocket", <<>>, "")>>
                        \o pocket.lines]
        ELSE [diverges |-> FALSE, lines |-> pilot]

\* DrillToolpath._generateCounterboreHole
GenerateCounterboreHole(hole, cfg) ==
    LET pilot == <<Comment("Drilling pilot hole", <<>>, "")>>
                 \o GeneratePlungeHole(hole, cfg)
        cbConfig == [diameter |-> cfg.cbDiameter, depth |-> cfg.cbDepth,
                     type |-> "pocket"]
        pocket == GeneratePocketHole(hole, cbConfig)
    IN  IF Truthy(cfg.cbDiameter) /\ Truthy(cfg.cbDepth)
        THEN [diverges |-> pocket.diverges,
              lines |-> pilot \o <<Blank, Comment("Counterbore pocket", <<>>, "")>>
                        \o pocket.lines]
        ELSE [diverges |-> FALSE, lines |-> pilot]

\* Variant of _generateHoleOperation whose banner carries the hole's stored
\* display number instead of holeNum
GenerateHoleOperationByNumber(hole, holeNum, cfg) ==
    LET banner == Comment("Hole",
                    <<IntArg(hole.number), FormatSBPNumber(hole.x), FormatSBPNumber(hole.y)>>,
                    "")
        body == CASE cfg.type = "pocket" -> GeneratePocketHole(hole, cfg)
                  [] cfg.type = "counterbore" -> GenerateCounterboreHole(hole, cfg)
                  [] OTHER ->
                        [diverges |-> FALSE, lines |-> GeneratePlungeHole(hole, cfg)]
    IN  [diverges |-> body.diverges,
         lines |-> <<banner>> \o body.lines \o <<Blank>>]

\* DrillToolpath._generateHoleOperation: the banner, the operation the
\* switch on config.type selects, and a closing empty line
GenerateHoleOperation(hole, holeNum, cfg) ==
    LET banner == Comment("Hole",
                    <<IntArg(holeNum), FormatSBPNumber(hole.x), FormatSBPNumber(hole.y)>>,
                    "")
        body == CASE cfg.type \in {"through", "blind"} ->
                        [diverges |-> FALSE, lines |-> GeneratePlungeHole(hole, cfg)]
                  [] cfg.type = "pocket" -> GeneratePocketHole(hole, cfg)
                  [] cfg.type = "counterbore" -> GenerateCounterboreHole(hole, cfg)
                  [] OTHER ->
                        [diverges |-> FALSE, lines |-> GeneratePlungeHole(hole, cfg)]
    IN  [diverges |-> body.diverges,
         lines |-> <<banner>> \o body.lines \o <<Blank>>]

-----------------------------------------------------------------------------
(* DrillToolpath: tour optimization *)

\* DrillToolpath._distance(p1, p2), squared.  The code compares
\* Math.sqrt(dx*dx + dy*dy) of two pairs of points with <; Math.sqrt is
\* strictly increasing on the coordinates of the model, so the squares
\* compare the same way.  Coordinates are whole multiples of 1 / Unit.
DistanceSq(p1, p2) ==
    LET dx == p2.x.n - p1.x.n
        dy == p2.y.n - p1.y.n
    IN  dx * dx + dy * dy

\* hole.x * hole.x + hole.y * hole.y of the seed selection
OriginDistSq(hole) == hole.x.n * hole.x.n + hole.y.n * hole.y.n

\* the distances of a hole are numbers: a null coordinate counts as 0 in the
\* arithmetic, an undefined or NaN one makes every distance NaN, and a
\* comparison with NaN is false
HasPosition(hole) == hole.x.t \in {"num", "null"} /\ hole.y.t \in {"num", "null"}

\* Array.prototype.indexOf: first position holding the same object, 0 if none
IndexOf(arr, ref) ==
    IF \E i \in 1..Len(arr) : arr[i] = ref
    THEN CHOOSE i \in 1..Len(arr) : arr[i] = ref /\ \A j \in 1..(i - 1) : arr[j] # ref
    ELSE 0

\* Variant of the splice that omits the delete count, arr.splice(i): every
\* element from position i on is removed
RemoveAtNoCount(arr, i) == SubSeq(arr, 1, i - 1)

\* arr.splice(i, 1) on a found position
RemoveAt(arr, i) == SubSeq(arr, 1, i - 1) \o SubSeq(arr, i + 1, Len(arr))

\* Variant in which remaining is the caller's array itself (remaining = holes
\* instead of [...holes]): the splice also empties the caller's array
SpliceRemainingAliased(st, ref) ==
    [st EXCEPT !.remaining = RemoveAt(@, IndexOf(@, ref)),
               !.arg = RemoveAt(@, IndexOf(@, ref))]

\* remaining.splice(remaining.indexOf(ref), 1): remaining is the copy
\* [...holes], so the caller's array (arg) keeps its elements
SpliceRemaining(st, ref) ==
    [st EXCEPT !.remaining = RemoveAt(@, IndexOf(@, ref))]

\* Variant of the seed selection that compares with <= instead of <: among
\* holes at the same distance from the origin the last one wins
RECURSIVE ReduceClosestLast(_, _, _, _)
ReduceClosestLast(remaining, hp, i, closest) ==
    IF i > Len(remaining) THEN closest
    ELSE ReduceClosestLast(remaining, hp, i + 1,
            IF /\ HasPosition(hp[remaining[i]]) /\ HasPosition(hp[closest])
               /\ OriginDistSq(hp[remaining[i]]) <= OriginDistSq(hp[closest])
            THEN remaining[i] ELSE closest)

\* remaining.reduce((closest, hole) => ...) without initial value: the fold
\* starts from remaining[0] and replaces it only by a strictly closer hole
RECURSIVE ReduceClosest(_, _, _, _)
ReduceClosest(remaining, hp, i, closest) ==
    IF i > Len(remaining) THEN closest
    ELSE ReduceClosest(remaining, hp, i + 1,
            IF /\ HasPosition(hp[remaining[i]]) /\ HasPosition(hp[closest])
               /\ OriginDistSq(hp[remaining[i]]) < OriginDistSq(hp[closest])
            THEN remaining[i] ELSE closest)

\* Variant of the inner loop that lets the display number decide between
\* holes at the same distance: the higher number wins
RECURSIVE NearestToByNumber(_, _, _, _, _)
NearestToByNumber(current, remaining, hp, i, nearest) ==
    IF i > Len(remaining) THEN nearest
    ELSE NearestToByNumber(current, remaining, hp, i + 1,
            IF /\ HasPosition(hp[current])
               /\ HasPosition(hp[remaining[i]]) /\ HasPosition(hp[nearest])
               /\ \/ DistanceSq(hp[current], hp[remaining[i]])
                        < DistanceSq(hp[current], hp[nearest])
                  \/ /\ DistanceSq(hp[current], hp[remaining[i]])
                            = DistanceSq(hp[current], hp[nearest])
                     /\ hp[remaining[i]].number > hp[nearest].number
            THEN remaining[i] ELSE nearest)

\* the inner for loop: nearest starts as remaining[0] and is replaced only by
\* a strictly nearer hole
RECURSIVE NearestTo(_, _, _, _, _)
NearestTo(current, remaining, hp, i, nearest) ==
    IF i > Len(remaining) THEN nearest
    ELSE NearestTo(current, remaining, hp, i + 1,
            IF /\ HasPosition(hp[current])
               /\ HasPosition(hp[remaining[i]]) /\ HasPosition(hp[nearest])
               /\ DistanceSq(hp[current], hp[remaining[i]])
                    < DistanceSq(hp[current], hp[nearest])
            THEN remaining[i] ELSE nearest)

\* the while (remaining.length > 0) loop
RECURSIVE NearestNeighbor(_, _)
NearestNeighbor(st, hp) ==
    IF Len(st.remaining) = 0 THEN st
    ELSE LET nearest == NearestTo(st.current, st.remaining, hp, 2, st.remaining[1])
         IN  NearestNeighbor(
                SpliceRemaining(
                    [st EXCEPT !.sorted = Append(@, nearest), !.current = nearest],
                    nearest),
                hp)

\* Variant of _optimizeHoleOrder that keeps the tool position between calls:
\* a later tour starts at the hole the previous tour ended on
OptimizeHoleOrderFromLast(hs, hp) ==
    IF Len(hs) <= 1 THEN [ret |-> hs, arg |-> hs]
    ELSE LET previous == IF optLog = <<>> THEN <<>> ELSE optLog[Len(optLog)].output
             first == IF previous # <<>> /\ IndexOf(hs, previous[Len(previous)]) # 0
                      THEN previous[Len(previous)]
                      ELSE ReduceClosest(hs, hp, 2, hs[1])
             start == [arg |-> hs, remaining |-> RemoveAt(hs, IndexOf(hs, first)),
                       sorted |-> <<first>>, current |-> first]
             done == NearestNeighbor(start, hp)
         IN  [ret |-> done.sorted, arg |-> done.arg]

\* DrillToolpath._optimizeHoleOrder(holes): ret is the returned array, arg
\* the caller's array after the call
OptimizeHoleOrder(hs, hp) ==
    IF Len(hs) <= 1 THEN [ret |-> hs, arg |-> hs]
    ELSE LET first == ReduceClosest(hs, hp, 2, hs[1])
             start == SpliceRemaining(
                        [arg |-> hs, remaining |-> hs,
                         sorted |-> <<first>>, current |-> first],
                        first)
             done == NearestNeighbor(start, hp)
         IN  [ret |-> done.sorted, arg |-> done.arg]

-----------------------------------------------------------------------------
(* DrillToolpath: validation *)

\* Variant of validateConfig that compares the counterbore diameter with <
\* Variant of validateConfig without the counterbore checks
ValidateConfigBaseOnly(cfg) ==
    IF ~cfg.defined THEN [threw |-> TRUE, errors |-> <<>>]
    ELSE [threw |-> FALSE,
          errors |->
            (IF ~Truthy(cfg.diameter) \/ LessEq(cfg.diameter, Num(0))
             THEN <<"Diameter must be greater than 0">> ELSE <<>>)
            \o (IF ~Truthy(cfg.depth) \/ LessEq(cfg.depth, Num(0))
                THEN <<"Depth must be greater than 0">> ELSE <<>>)]

\* instead of <=: a counterbore as wide as the hole passes
ValidateConfigAcceptEqual(cfg) ==
    IF ~cfg.defined THEN [threw |-> TRUE, errors |-> <<>>]
    ELSE [threw |-> FALSE,
          errors |->
            (IF ~Truthy(cfg.diameter) \/ LessEq(cfg.diameter, Num(0))
             THEN <<"Diameter must be greater than 0">> ELSE <<>>)
            \o (IF ~Truthy(cfg.depth) \/ LessEq(cfg.depth, Num(0))
                THEN <<"Depth must be greater than 0">> ELSE <<>>)
            \o (IF cfg.type = "counterbore"
                THEN (IF ~Truthy(cfg.cbDiameter) \/ Less(cfg.cbDiameter, cfg.diameter)
                      THEN <<"Counterbore diameter must be larger than hole diameter">>
                      ELSE <<>>)
                     \o (IF ~Truthy(cfg.cbDepth) \/ LessEq(cfg.cbDepth, Num(0))
                         THEN <<"Counterbore depth must be greater than 0">>
                         ELSE <<>>)
                ELSE <<>>)]

\* DrillToolpath.validateConfig(config): reading a field of an absent config
\* is a TypeError
ValidateConfig(cfg) ==
    IF ~cfg.defined THEN [threw |-> TRUE, errors |-> <<>>]
    ELSE [threw |-> FALSE,
          errors |->
            (IF ~Truthy(cfg.diameter) \/ LessEq(cfg.diameter, Num(0))
             THEN <<"Diameter must be greater than 0">> ELSE <<>>)
            \o (IF ~Truthy(cfg.depth) \/ LessEq(cfg.depth, Num(0))
                THEN <<"Depth must be greater than 0">> ELSE <<>>)
            \o (IF cfg.type = "counterbore"
                THEN (IF ~Truthy(cfg.cbDiameter) \/ LessEq(cfg.cbDiameter, cfg.diameter)
                      THEN <<"Counterbore diameter must be larger than hole diameter">>
                      ELSE <<>>)
                     \o (IF ~Truthy(cfg.cbDepth) \/ LessEq(cfg.cbDepth, Num(0))
                         THEN <<"Counterbore depth must be greater than 0">>
                         ELSE <<>>)
                ELSE <<>>)]

-----------------------------------------------------------------------------
(* DrillToolpath: program assembly *)

\* an array argument: defined = FALSE is a call without a hole list
Given(hs) == [defined |-> TRUE, items |-> hs]
Absent == [defined |-> FALSE, items |-> <<>>]

\* outcome of an engine call.  kind is "return", "throw" (error names the
\* exception) or "diverge" (the call never returns); text is the returned
\* program, order the returned hole array, errors the returned problem list;
\* arg is the caller's hole array after the call
Outcome(op, kind, error, text, order, errors, arg) ==
    [op |-> op, kind |-> kind, error |-> error, text |-> text,
     order |-> order, errors |-> errors, arg |-> arg]

\* sortedHoles.forEach((hole, index) => sbp.push(_generateHoleOperation(hole, index + 1, ...)))
HoleOperations(sortedHoles, hp, cfg) ==
    [index \in 1..Len(sortedHoles) |->
        GenerateHoleOperation(hp[sortedHoles[index]], index, cfg)]

\* the first hole operation of the forEach that cannot be built (0 if all
\* can): formatSBPNumber of a null coordinate throws before anything else
\* in the operation, a pocket of infinitely many passes never ends
FirstFailing(ops) ==
    IF \E i \in 1..Len(ops) : ops[i].diverges \/ Throws(ops[i].lines)
    THEN CHOOSE i \in 1..Len(ops) :
            /\ ops[i].diverges \/ Throws(ops[i].lines)
            /\ \A j \in 1..(i - 1) : ~(ops[j].diverges \/ Throws(ops[j].lines))
    ELSE 0

\* Variant of the assembly that pushes the footer before the hole operations
AssembleFooterFirst(header, init, operations, footer, before, after) ==
    Only({(
        IF Throws(init)
        THEN Outcome("generate", "throw", "TypeError", <<>>, <<>>, <<>>, before)
        ELSE IF FirstFailing(ops) # 0
        THEN (IF Throws(ops[FirstFailing(ops)].lines)
              THEN Outcome("generate", "throw", "TypeError", <<>>, <<>>, <<>>, after)
              ELSE Outcome("generate", "diverge", "", <<>>, <<>>, <<>>, after))
        ELSE Outcome("generate", "return", "",
                header \o init \o footer \o Join([i \in 1..Len(ops) |-> ops[i].lines]),
                <<>>, <<>>, after)
    ) : ops \in {operations}})

\* Variant of the assembly in which sbp is kept between calls instead of
\* starting empty: a program is appended to the text of the previous one
AssembleAccumulating(header, init, operations, footer, before, after) ==
    Only({(
        IF Throws(init)
        THEN Outcome("generate", "throw", "TypeError", <<>>, <<>>, <<>>, before)
        ELSE IF FirstFailing(ops) # 0
        THEN (IF Throws(ops[FirstFailing(ops)].lines)
              THEN Outcome("generate", "throw", "TypeError", <<>>, <<>>, <<>>, after)
              ELSE Outcome("generate", "diverge", "", <<>>, <<>>, <<>>, after))
        ELSE Outcome("generate", "return", "",
                (IF ret.op = "generate" THEN ret.text ELSE <<>>)
                \o header \o init \o Join([i \in 1..Len(ops) |-> ops[i].lines]) \o footer,
                <<>>, <<>>, after)
    ) : ops \in {operations}})

\* sbp.join('\n') of the pushed blocks, unless a block could not be built:
\* a TypeError of the initialization aborts the call before the tour is
\* computed, a hole operation that throws aborts it after, and a hole
\* operation that never ends keeps it from returning
Assemble(header, init, operations, footer, before, after) ==
    Only({(
        IF Throws(init)
        THEN Outcome("generate", "throw", "TypeError", <<>>, <<>>, <<>>, before)
        ELSE IF FirstFailing(ops) # 0
        THEN (IF Throws(ops[FirstFailing(ops)].lines)
              THEN Outcome("generate", "throw", "TypeError", <<>>, <<>>, <<>>, after)
              ELSE Outcome("generate", "diverge", "", <<>>, <<>>, <<>>, after))
        ELSE Outcome("generate", "return", "",
                header \o init \o Join([i \in 1..Len(ops) |-> ops[i].lines]) \o footer,
                <<>>, <<>>, after)
    ) : ops \in {operations}})

\* the body of generate once holes is known to be non-empty; sortedHoles is
\* the outcome of _optimizeHoleOrder(holes)
GenerateProgram(hs, hp, cfg, st, now, settings, sortedHoles) ==
    Assemble(GenerateHeader(Len(hs), cfg, now),
             GenerateInit(cfg, settings),
             HoleOperations(sortedHoles.ret, hp, cfg),
             GenerateSBPFooter([safeZ |-> Or(cfg.safeZ, settings.safeZ),
                                returnHome |-> "undefined"], st),
             hs, sortedHoles.arg)

\* Variant of generate that rejects an absent hole list only (if (!holes)):
\* an empty list goes on to the header
GenerateNoEmptyCheck(a, hp, cfg, st, now) ==
    IF ~a.defined
    THEN Outcome("generate", "throw", "No holes to drill", <<>>, <<>>, <<>>, a.items)
    ELSE IF ~cfg.defined
    THEN Outcome("generate", "throw", "TypeError", <<>>, <<>>, <<>>, a.items)
    ELSE CHOOSE out \in
            {GenerateProgram(a.items, hp, cfg, st, now, settings, sortedHoles) :
                settings \in {GetGlobalSettings(st)},
                sortedHoles \in {OptimizeHoleOrder(a.items, hp)}} : TRUE

\* DrillToolpath.generate(holes, config).  Reading config.materialThickness
\* of an absent config is a TypeError.  settings and sortedHoles are bound
\* once, as the const declarations of the code bind them.
Generate(a, hp, cfg, st, now) ==
    IF ~a.defined \/ Len(a.items) = 0
    THEN Outcome("generate", "throw", "No holes to drill", <<>>, <<>>, <<>>, a.items)
    ELSE IF ~cfg.defined
    THEN Outcome("generate", "throw", "TypeError", <<>>, <<>>, <<>>, a.items)
    ELSE CHOOSE out \in
            {GenerateProgram(a.items, hp, cfg, st, now, settings, sortedHoles) :
                settings \in {GetGlobalSettings(st)},
                sortedHoles \in {OptimizeHoleOrder(a.items, hp)}} : TRUE

-----------------------------------------------------------------------------
(* DrillPressUI: the hole list and its history *)

\* The UI side of a step is computed on a record w = [heap, holes, ui]:
\* the hole objects, this.holes and the other fields of the UI.

\* the arguments of a generateArray call
ArrayArgs(rows, cols, spacingX, spacingY, originX, originY) ==
    [rows |-> rows, cols |-> cols, spacingX |-> spacingX, spacingY |-> spacingY,
     originX |-> originX, originY |-> originY]

NoArgs == ArrayArgs(0, 0, Undefined, Undefined, Undefined, Undefined)

\* The form holds the text of the input elements; a field here is what
\* parseFloat makes of that text, a number or NaN.
MkForm(type, diameter, depth, cbDiameter, cbDepth, plungeRate) ==
    [type |-> type, diameter |-> diameter, depth |-> depth,
     cbDiameter |-> cbDiameter, cbDepth |-> cbDepth, plungeRate |-> plungeRate]

\* an empty form
NoForm == MkForm("", NaN, NaN, NaN, NaN, NaN)

\* the form of the page, the fields DrillPressUI's constructor sets (history
\* and historyIndex in addUndoRedo), the number of items of the hole list
\* whose buttons are bound, and what the last handler did: its name and
\* arguments, the engine calls it made, its notifications, the requests it
\* sent to the machine and the exception it ended with ("" if none); the
\* preview modal
NoUI ==
    [form |-> NoForm,
     history |-> <<>>,
     historyIndex |-> -1,
     selectedHoleIndex |-> -1,
     listed |-> 0,
     handler |-> "none",
     args |-> NoArgs,
     calls |-> <<>>,
     notices |-> <<>>,
     preview |-> [shown |-> FALSE, text |-> <<>>],
     machine |-> <<>>,
     error |-> "",
     hung |-> FALSE]

\* a handler starts: what the previous one did is forgotten
Begin(world, handler, args) ==
    Only({(
        [w EXCEPT !.ui.handler = handler, !.ui.args = args, !.ui.error = "",
                  !.ui.calls = <<>>, !.ui.notices = <<>>, !.ui.machine = <<>>]
    ) : w \in {world}})

\* An exception nobody catches ends the handler: the statements after the
\* throw do not run, what was assigned before it stays.
Raised(w) == w.ui.error # ""
Throw(world, error) ==
    Only({(
        IF Raised(w) THEN w ELSE [w EXCEPT !.ui.error = error]
    ) : w \in {world}})

\* cobot.notify(message, type); errors are the problems the message lists
Notify(world, message, type, errors) ==
    Only({(
        IF Raised(w) THEN w
        ELSE [w EXCEPT !.ui.notices =
                Append(@, [message |-> message, type |-> type, errors |-> errors])]
    ) : w \in {world}})

Null == [t |-> "null", n |-> 0, d |-> 1]

\* JSON.parse(JSON.stringify(value)) of a number field: NaN and Infinity
\* come back as null, an absent field stays absent
JsonNumber(v) == IF v.t \in {"nan", "inf"} THEN Null ELSE v

\* JSON.parse(JSON.stringify(this.holes)): a deep copy, by value
JsonHoles(w) ==
    [i \in 1..Len(w.holes) |->
        [x |-> JsonNumber(w.heap[w.holes[i]].x),
         y |-> JsonNumber(w.heap[w.holes[i]].y),
         diameter |-> JsonNumber(w.heap[w.holes[i]].diameter),
         depth |-> JsonNumber(w.heap[w.holes[i]].depth),
         type |-> w.heap[w.holes[i]].type,
         number |-> w.heap[w.holes[i]].number]]

\* this.saveState(): drop the redo branch, push a copy of the list
SaveState(world) ==
    Only({(
        IF Raised(w) THEN w
        ELSE [w EXCEPT !.ui.history =
                            Append(SubSeq(@, 1, w.ui.historyIndex + 1), JsonHoles(w)),
                       !.ui.historyIndex = @ + 1]
    ) : w \in {world}})

\* DrillPressUI.updateHoleList(): an item is built for every hole, then the
\* buttons of the items are bound.  hole.x.toFixed(3) of a null or absent
\* coordinate is a TypeError: the list then stays without bound buttons.
UpdateHoleList(world) ==
    Only({(
        IF Raised(w) THEN w
        ELSE IF \E i \in 1..Len(w.holes) :
                    \/ w.heap[w.holes[i]].x.t \in {"null", "undefined"}
                    \/ w.heap[w.holes[i]].y.t \in {"null", "undefined"}
        THEN Throw([w EXCEPT !.ui.listed = 0], "TypeError")
        ELSE [w EXCEPT !.ui.listed = Len(w.holes)]
    ) : w \in {world}})

\* DrillPressUI.draw(): ctx.arc throws on a negative radius, that of a hole
\* with a negative diameter (hole.diameter || 0.25)
Draw(world) ==
    Only({(
        IF \E i \in 1..Len(w.holes) :
                Truthy(w.heap[w.holes[i]].diameter) /\ w.heap[w.holes[i]].diameter.n < 0
        THEN Throw(w, "IndexSizeError")
        ELSE w
    ) : w \in {world}})

\* DrillPressUI.addHole(x, y) with config = {}: diameter, depth and type are
\* read from the form
AddHole(world, x, y) ==
    Only({(
        LET form == w.ui.form
            hole == [x |-> x, y |-> y,
                     diameter |-> Or(Undefined, ToNumber(form.diameter)),
                     depth |-> Or(Undefined, ToNumber(form.depth)),
                     type |-> form.type,
                     number |-> Len(w.holes) + 1]
        IN  IF Raised(w) THEN w
            ELSE SaveState(Draw(UpdateHoleList(
                    [w EXCEPT !.heap = Append(@, hole),
                              !.holes = Append(@, Len(w.heap) + 1)])))
    ) : w \in {world}})

\* Variant of removeHole that leaves the numbers of the holes as they were
RemoveHoleKeepingNumbers(world, index) ==
    Only({(
        LET left == IF index < Len(w.holes) THEN RemoveAt(w.holes, index + 1) ELSE w.holes
        IN  SaveState(Draw(UpdateHoleList(
                [w EXCEPT !.holes = left, !.ui.selectedHoleIndex = -1])))
    ) : w \in {world}})

\* DrillPressUI.removeHole(index): splice, renumber the holes left, drop the
\* selection (index counts from 0; a splice beyond the end removes nothing)
RemoveHole(world, index) ==
    Only({(
        LET left == IF index < Len(w.holes) THEN RemoveAt(w.holes, index + 1) ELSE w.holes
        IN  SaveState(Draw(UpdateHoleList(
                [w EXCEPT !.holes = left,
                          !.heap = [r \in DOMAIN w.heap |->
                                        IF IndexOf(left, r) # 0
                                        THEN [w.heap[r] EXCEPT !.number = IndexOf(left, r)]
                                        ELSE w.heap[r]],
                          !.ui.selectedHoleIndex = -1])))
    ) : w \in {world}})

\* DrillPressUI.clearAllHoles()
ClearAllHoles(world) ==
    Only({(
        SaveState(Draw(UpdateHoleList(
            [w EXCEPT !.holes = <<>>, !.ui.selectedHoleIndex = -1])))
    ) : w \in {world}})

\* the "select" button of item index of the hole list
Select(world, index) ==
    Only({(
        Draw(UpdateHoleList([w EXCEPT !.ui.selectedHoleIndex = index]))
    ) : w \in {world}})

\* this.holes = JSON.parse(JSON.stringify(this.history[this.historyIndex])):
\* new objects, one per hole of the snapshot
Restore(world) ==
    Only({(
        LET snapshot == w.ui.history[w.ui.historyIndex + 1]
        IN  [w EXCEPT !.heap = @ \o snapshot,
                      !.holes = [i \in 1..Len(snapshot) |-> Len(w.heap) + i]]
    ) : w \in {world}})

\* this.undo(): DrillPressUI has no render method, the call this.render()
\* is a TypeError
Undo(world) ==
    Only({(
        IF w.ui.historyIndex > 0
        THEN Throw(Restore([w EXCEPT !.ui.historyIndex = @ - 1]), "TypeError")
        ELSE w
    ) : w \in {world}})

\* this.redo()
Redo(world) ==
    Only({(
        IF w.ui.historyIndex < Len(w.ui.history) - 1
        THEN Throw(Restore([w EXCEPT !.ui.historyIndex = @ + 1]), "TypeError")
        ELSE w
    ) : w \in {world}})

\* k * v for a loop index k
Times(k, v) == IF IsNum(v) THEN Ratio(k * v.n, v.d) ELSE NaN

\* Variant of the loops of generateArray that runs the columns in the outer
\* loop and the rows in the inner one
RECURSIVE ArrayLoopColumnMajor(_, _, _, _)
ArrayLoopColumnMajor(world, a, row, col) ==
    Only({(
        IF col >= a.cols THEN w
        ELSE IF row >= a.rows THEN ArrayLoopColumnMajor(w, a, 0, col + 1)
        ELSE ArrayLoopColumnMajor(
                AddHole(w, Plus(a.originX, Times(col, a.spacingX)),
                           Plus(a.originY, Times(row, a.spacingY))),
                a, row + 1, col)
    ) : w \in {world}})

\* the loops of generateArray: for row = 0.., for col = 0.., addHole
RECURSIVE ArrayLoop(_, _, _, _)
ArrayLoop(world, a, row, col) ==
    Only({(
        IF row >= a.rows THEN w
        ELSE IF col >= a.cols THEN ArrayLoop(w, a, row + 1, 0)
        ELSE ArrayLoop(
                AddHole(w, Plus(a.originX, Times(col, a.spacingX)),
                           Plus(a.originY, Times(row, a.spacingY))),
                a, row, col + 1)
    ) : w \in {world}})

\* DrillPressUI.generateArray(rows, cols, spacingX, spacingY, originX, originY)
GenerateArray(world, a) ==
    Only({(
        SaveState(Notify(ArrayLoop(Begin(w, "generateArray", a), a, 0, 0),
                         "Generated hole array", "success", <<>>))
    ) : w \in {world}})

\* the arguments of a generateCirclePattern call; startAngle in degrees
PatternArgs(count, radius, centerX, centerY, startAngle) ==
    [count |-> count, radius |-> radius, centerX |-> centerX,
     centerY |-> centerY, startAngle |-> startAngle]

\* Math.cos and Math.sin of a whole number of quarter turns, in units of 1:
\* the pattern angles of the model are multiples of 90 degrees, where the
\* results are 0, 1 and -1 to within 10^-15
Cos(degrees) ==
    CASE degrees % 360 = 0 -> 1 [] degrees % 360 = 180 -> -1 [] OTHER -> 0
Sin(degrees) ==
    CASE degrees % 360 = 90 -> 1 [] degrees % 360 = 270 -> -1 [] OTHER -> 0

\* the loop of generateCirclePattern: hole i at startAngle + i * (360 / count)
RECURSIVE PatternLoop(_, _, _)
PatternLoop(world, p, i) ==
    Only({(
        IF i >= p.count THEN w
        ELSE LET degrees == WholeOf(p.startAngle) + i * (360 \div p.count)
                 x == IF IsNum(p.startAngle)
                      THEN Plus(p.centerX, Times(Cos(degrees), p.radius)) ELSE NaN
                 y == IF IsNum(p.startAngle)
                      THEN Plus(p.centerY, Times(Sin(degrees), p.radius)) ELSE NaN
             IN  PatternLoop(AddHole(w, x, y), p, i + 1)
    ) : w \in {world}})

\* DrillPressUI.generateCirclePattern(count, radius, centerX, centerY, startAngle)
GenerateCirclePattern(world, p) ==
    Only({(
        SaveState(Notify(PatternLoop(Begin(w, "generateCirclePattern", NoArgs), p, 0),
                         "Generated hole circle pattern", "success", <<>>))
    ) : w \in {world}})

-----------------------------------------------------------------------------
(* Drill Press application: the handlers that produce a program *)

\* getHoleConfig(): the counterbore fields are read for that type only
GetHoleConfig(form) ==
    [defined |-> TRUE, type |-> form.type,
     diameter |-> form.diameter, depth |-> form.depth,
     cbDiameter |-> IF form.type = "counterbore" THEN form.cbDiameter ELSE Undefined,
     cbDepth |-> IF form.type = "counterbore" THEN form.cbDepth ELSE Undefined,
     safeZ |-> Undefined, feedRate |-> Undefined,
     plungeRate |-> form.plungeRate, materialThickness |-> Undefined]

\* the handler called an engine method: with which hole array and config,
\* how the call ended, and what it returned
Called(w, op, hs, cfg, kind, errors, text) ==
    [w EXCEPT !.ui.calls =
        Append(@, [op |-> op, holes |-> hs, cfg |-> cfg, kind |-> kind,
                   errors |-> errors, text |-> text])]

\* const errors = toolpath.validateConfig(config)
CalledValidateConfig(w, cfg, v) ==
    Called(w, "validateConfig", <<>>, cfg,
           IF v.threw THEN "throw" ELSE "return", v.errors, <<>>)

\* const sbpCode = toolpath.generate(holes, config), holes being this.holes
CalledGenerate(w, cfg, out) ==
    [Called(w, "generate", w.holes, cfg, out.kind, <<>>, out.text)
        EXCEPT !.holes = out.arg, !.ui.hung = (out.kind = "diverge")]

\* this.fabmo.submitJob(sbpCode, jobOptions, callback) and
\* this.fabmo.runNext(callback); ok is whether the callback got no error
Requested(w, op, text, ok) ==
    [w EXCEPT !.ui.machine = Append(@, [op |-> op, text |-> text, ok |-> ok])]

\* CobotCore.submitJob(sbpCode, options): the promise is rejected with the
\* error FabMo gave the callback
SubmitJob(w, sbpCode, submitOk) ==
    [w |-> Requested(w, "submitJob", sbpCode, submitOk), rejected |-> ~submitOk,
     error |-> IF submitOk THEN "" ELSE "submitJob error"]

\* Variant of runJob that does not wait for the outcome of submitJob before
\* it asks for the run
RunJobWithoutWaiting(w, sbpCode, submitOk, runOk) ==
    LET submitted == SubmitJob(w, sbpCode, submitOk)
    IN  [w |-> Requested(submitted.w, "runNext", <<>>, runOk),
         rejected |-> ~submitOk \/ ~runOk,
         error |-> IF ~submitOk THEN "submitJob error"
                   ELSE IF runOk THEN "" ELSE "runNext error"]

\* CobotCore.runJob(sbpCode, options): runNext once the job is submitted
RunJob(w, sbpCode, submitOk, runOk) ==
    LET submitted == SubmitJob(w, sbpCode, submitOk)
    IN  IF submitted.rejected THEN submitted
        ELSE [w |-> Requested(submitted.w, "runNext", <<>>, runOk),
              rejected |-> ~runOk,
              error |-> IF runOk THEN "" ELSE "runNext error"]

\* handlePreviewToolpath()
HandlePreviewToolpath(w0, st, now) ==
    Only({(
        LET validated == CalledValidateConfig(w, config_, errors)
            generated == CalledGenerate(validated, config_, sbpCode)
        IN  IF Len(w.holes) = 0
            THEN Notify(w, "No holes to preview", "warning", <<>>)
            ELSE IF errors.threw
            THEN Notify(validated, "Failed to generate preview", "error", <<>>)
            ELSE IF Len(errors.errors) > 0
            THEN Notify(validated, "Configuration errors", "error", errors.errors)
            ELSE IF sbpCode.kind = "diverge"
            THEN generated
            ELSE IF sbpCode.kind = "throw"
            THEN Notify(generated, "Failed to generate preview", "error", <<sbpCode.error>>)
            ELSE [generated EXCEPT !.ui.preview = [shown |-> TRUE, text |-> sbpCode.text]]
    ) : w \in {Begin(w0, "handlePreviewToolpath", NoArgs)},
        config_ \in {GetHoleConfig(w0.ui.form)},
        errors \in {ValidateConfig(GetHoleConfig(w0.ui.form))},
        sbpCode \in {Generate(Given(w0.holes), w0.heap,
                              GetHoleConfig(w0.ui.form), st, now)}})

\* Variant of handleSaveJob that submits whatever generate left behind, also
\* when generate threw
HandleSaveJobEager(w0, st, now, submitOk) ==
    Only({(
        LET validated == CalledValidateConfig(w, config_, errors)
            generated == CalledGenerate(validated, config_, sbpCode)
            submitted == SubmitJob(generated, sbpCode.text, submitOk)
        IN  IF Len(w.holes) = 0
            THEN Notify(w, "No holes to save", "warning", <<>>)
            ELSE IF errors.threw
            THEN Notify(validated, "Failed to save job", "error", <<>>)
            ELSE IF Len(errors.errors) > 0
            THEN Notify(validated, "Configuration errors", "error", errors.errors)
            ELSE IF sbpCode.kind = "diverge"
            THEN generated
            ELSE IF submitted.rejected
            THEN Notify(submitted.w, "Failed to save job", "error", <<submitted.error>>)
            ELSE Notify(submitted.w, "Job saved successfully", "success", <<>>)
    ) : w \in {Begin(w0, "handleSaveJob", NoArgs)},
        config_ \in {GetHoleConfig(w0.ui.form)},
        errors \in {ValidateConfig(GetHoleConfig(w0.ui.form))},
        sbpCode \in {Generate(Given(w0.holes), w0.heap,
                              GetHoleConfig(w0.ui.form), st, now)}})

\* handleSaveJob()
HandleSaveJob(w0, st, now, submitOk) ==
    Only({(
        LET validated == CalledValidateConfig(w, config_, errors)
            generated == CalledGenerate(validated, config_, sbpCode)
            submitted == SubmitJob(generated, sbpCode.text, submitOk)
        IN  IF Len(w.holes) = 0
            THEN Notify(w, "No holes to save", "warning", <<>>)
            ELSE IF errors.threw
            THEN Notify(validated, "Failed to save job", "error", <<>>)
            ELSE IF Len(errors.errors) > 0
            THEN Notify(validated, "Configuration errors", "error", errors.errors)
            ELSE IF sbpCode.kind = "diverge"
            THEN generated
            ELSE IF sbpCode.kind = "throw"
            THEN Notify(generated, "Failed to save job", "error", <<sbpCode.error>>)
            ELSE IF submitted.rejected
            THEN Notify(submitted.w, "Failed to save job", "error", <<submitted.error>>)
            ELSE Notify(submitted.w, "Job saved successfully", "success", <<>>)
    ) : w \in {Begin(w0, "handleSaveJob", NoArgs)},
        config_ \in {GetHoleConfig(w0.ui.form)},
        errors \in {ValidateConfig(GetHoleConfig(w0.ui.form))},
        sbpCode \in {Generate(Given(w0.holes), w0.heap,
                              GetHoleConfig(w0.ui.form), st, now)}})

\* Variant of handleDrillNow that goes on to generate whatever validateConfig
\* returned
HandleDrillNowUnchecked(w0, st, now, confirmed, submitOk, runOk) ==
    Only({(
        LET validated == CalledValidateConfig(w, config_, errors)
            generated == CalledGenerate(validated, config_, sbpCode)
            ran == RunJob(generated, sbpCode.text, submitOk, runOk)
        IN  IF Len(w.holes) = 0
            THEN Notify(w, "No holes to drill", "warning", <<>>)
            ELSE IF ~confirmed
            THEN w
            ELSE IF errors.threw
            THEN Notify(validated, "Failed to start drilling", "error", <<>>)
            ELSE IF sbpCode.kind = "diverge"
            THEN generated
            ELSE IF sbpCode.kind = "throw"
            THEN Notify(generated, "Failed to start drilling", "error", <<sbpCode.error>>)
            ELSE IF ran.rejected
            THEN Notify(ran.w, "Failed to start drilling", "error", <<ran.error>>)
            ELSE Notify(ran.w, "Drilling started!", "success", <<>>)
    ) : w \in {Begin(w0, "handleDrillNow", NoArgs)},
        config_ \in {GetHoleConfig(w0.ui.form)},
        errors \in {ValidateConfig(GetHoleConfig(w0.ui.form))},
        sbpCode \in {Generate(Given(w0.holes), w0.heap,
                              GetHoleConfig(w0.ui.form), st, now)}})

\* handleDrillNow(): the user is asked to confirm before the config is read
HandleDrillNow(w0, st, now, confirmed, submitOk, runOk) ==
    Only({(
        LET validated == CalledValidateConfig(w, config_, errors)
            generated == CalledGenerate(validated, config_, sbpCode)
            ran == RunJob(generated, sbpCode.text, submitOk, runOk)
        IN  IF Len(w.holes) = 0
            THEN Notify(w, "No holes to drill", "warning", <<>>)
            ELSE IF ~confirmed
            THEN w
            ELSE IF errors.threw
            THEN Notify(validated, "Failed to start drilling", "error", <<>>)
            ELSE IF Len(errors.errors) > 0
            THEN Notify(validated, "Configuration errors", "error", errors.errors)
            ELSE IF sbpCode.kind = "diverge"
            THEN generated
            ELSE IF sbpCode.kind = "throw"
            THEN Notify(generated, "Failed to start drilling", "error", <<sbpCode.error>>)
            ELSE IF ran.rejected
            THEN Notify(ran.w, "Failed to start drilling", "error", <<ran.error>>)
            ELSE Notify(ran.w, "Drilling started!", "success", <<>>)
    ) : w \in {Begin(w0, "handleDrillNow", NoArgs)},
        config_ \in {GetHoleConfig(w0.ui.form)},
        errors \in {ValidateConfig(GetHoleConfig(w0.ui.form))},
        sbpCode \in {Generate(Given(w0.holes), w0.heap,
                              GetHoleConfig(w0.ui.form), st, now)}})

\* handleGenerateArray(): rows and cols come from parseInt (NaN is modelled
\* as 0, which the same check rejects); the origin is not checked
HandleGenerateArray(w, a) ==
    IF a.rows < 1 \/ a.cols < 1
    THEN Notify(Begin(w, "handleGenerateArray", a),
                "Invalid array dimensions", "error", <<>>)
    ELSE IF ~IsNum(a.spacingX) \/ ~IsNum(a.spacingY)
            \/ LessEq(a.spacingX, Num(0)) \/ LessEq(a.spacingY, Num(0))
    THEN Notify(Begin(w, "handleGenerateArray", a),
                "Invalid spacing values", "error", <<>>)
    ELSE GenerateArray(w, a)

\* handleAddSingleHole() with the parsed fields single-x and single-y
HandleAddSingleHole(w, x, y) ==
    IF ~IsNum(x) \/ ~IsNum(y)
    THEN Notify(Begin(w, "handleAddSingleHole", NoArgs),
                "Invalid coordinates", "error", <<>>)
    ELSE Notify(AddHole(Begin(w, "addHole", NoArgs), x, y),
                "Hole added", "success", <<>>)

\* handleGeneratePattern() with the parsed pattern fields; the pattern type
\* of the form is "circle"
HandleGeneratePattern(w, p) ==
    IF p.count < 2
    THEN Notify(Begin(w, "handleGeneratePattern", NoArgs),
                "Invalid hole count", "error", <<>>)
    ELSE IF ~IsNum(p.radius) \/ LessEq(p.radius, Num(0))
    THEN Notify(Begin(w, "handleGeneratePattern", NoArgs),
                "Invalid radius", "error", <<>>)
    ELSE GenerateCirclePattern(w, p)

\* handleClearAllHoles(); the user confirms or not
HandleClearAllHoles(w, confirmed) ==
    IF Len(w.holes) = 0 \/ ~confirmed
    THEN Begin(w, "handleClearAllHoles", NoArgs)
    ELSE Notify(ClearAllHoles(Begin(w, "clearAllHoles", NoArgs)),
                "All holes cleared", "info", <<>>)

-----------------------------------------------------------------------------
(* Inputs of the model *)

\* a hole object as DrillPressUI.addHole builds it
MkHole(pt, number) ==
    [x |-> Num(pt[1]), y |-> Num(pt[2]),
     diameter |-> Num(Unit \div 4), depth |-> Num(Unit \div 2),
     type |-> "through", number |-> number]

\* hole positions (x, y) in 1 / Unit: on and off the 3-decimal grid
GenPoints == {<<0, 0>>, <<10004, -4>>}

\* hole positions with ties in the distance from the origin and between holes
OrderPoints == {<<10000, 0>>, <<0, 10000>>, <<10000, 10000>>, <<-10000, 0>>,
                <<20000, 10000>>}

MkConfig(defined, type, diameter, depth, cbDiameter, cbDepth, safeZ) ==
    [defined |-> defined, type |-> type, diameter |-> diameter, depth |-> depth,
     cbDiameter |-> cbDiameter, cbDepth |-> cbDepth, safeZ |-> safeZ,
     feedRate |-> Undefined, plungeRate |-> NaN, materialThickness |-> Undefined]

\* a call without a config object
NoConfig ==
    MkConfig(FALSE, "undefined", Undefined, Undefined, Undefined, Undefined, Undefined)

Types == {"through", "blind", "pocket", "counterbore", "slot", "undefined"}

GenConfigs ==
    {NoConfig} \cup
    {MkConfig(TRUE, type, geo[1], depth, geo[2], geo[3], safeZ) :
        type \in Types,
        geo \in {<<Num(0), Undefined, Undefined>>,
                 <<Num(5000), Undefined, Undefined>>,
                 <<Num(5000), Num(7500), Num(2500)>>},
        depth \in {Undefined, Num(0), Num(5004), Num(-7500)},
        safeZ \in {Undefined, Num(0), Num(10000)}}

ValidConfig ==
    MkConfig(TRUE, "through", Num(2500), Num(5000), Undefined, Undefined, Undefined)

ValidateConfigs ==
    {NoConfig} \cup
    {MkConfig(TRUE, type, diameter, depth, cbDiameter, cbDepth, Undefined) :
        type \in Types,
        diameter \in {Undefined, NaN, Num(0), Num(-2500), Num(5000)},
        depth \in {Undefined, NaN, Num(0), Num(-5000), Num(5000)},
        cbDiameter \in {Undefined, NaN, Num(0), Num(4000), Num(5000), Num(7500)},
        cbDepth \in {Undefined, NaN, Num(0), Num(-2000), Num(2000)}}

\* pocket configs whose depth is and is not a whole number of capped passes,
\* and counterbore configs with each counterbore field absent, NaN, 0 or set
PocketConfigs ==
    {MkConfig(TRUE, "pocket", diameter, depth, Undefined, Undefined, Undefined) :
        diameter \in {Num(2000), Num(5000), Num(20000)},
        depth \in {Num(1000), Num(2500), Num(5004), Num(10000), Num(11000)}}
    \cup
    {MkConfig(TRUE, "counterbore", Num(5000), depth, cbDiameter, cbDepth, Undefined) :
        depth \in {Undefined, Num(5004), Num(-7500)},
        cbDiameter \in {Undefined, NaN, Num(0), Num(2000), Num(7500)},
        cbDepth \in {Undefined, NaN, Num(0), Num(2500), Num(6000), Num(-6000)}}

\* one config per operation type, one that generate rejects, and no config
RepeatConfigs ==
    {NoConfig,
     MkConfig(TRUE, "through", Num(2500), Num(5000), Undefined, Undefined, Undefined),
     MkConfig(TRUE, "blind", Num(2500), Undefined, Undefined, Undefined, Undefined),
     MkConfig(TRUE, "pocket", Num(5000), Num(5004), Undefined, Undefined, Num(10000)),
     MkConfig(TRUE, "counterbore", Num(5000), Num(-7500), Num(7500), Num(2500), Num(0))}

NoStorage ==
    [hasSettings |-> FALSE,
     settings |-> [safeZ |-> Undefined, spindleStartupTime |-> Undefined,
                   feedRate |-> Undefined, plungeRate |-> Undefined],
     hasDatum |-> FALSE,
     datum |-> [x |-> Num(0), y |-> Num(0), z |-> Num(0)]]

Storages ==
    {NoStorage,
     [NoStorage EXCEPT !.hasSettings = TRUE, !.settings.safeZ = Num(7500),
                       !.hasDatum = TRUE, !.datum.x = Num(10000)]}

NoOutcome == Outcome("none", "none", "", <<>>, <<>>, <<>>, <<>>)

\* the caller holds n hole objects, numbered 1..n in list order, at the
\* positions pts[1..n]
InitHoles(points, maxLen) ==
    \E n \in 0..maxLen :
        \E pts \in [1..n -> points] :
            /\ heap = [i \in 1..n |-> MkHole(pts[i], i)]
            /\ holes = [i \in 1..n |-> i]

InitRest(calls) ==
    /\ limit = calls
    /\ clock = 0
    /\ ncalls = 0
    /\ ret = NoOutcome
    /\ prev = NoOutcome
    /\ ui = NoUI
    /\ optLog = <<>>

Init ==
    /\ InitHoles(GenPoints, MaxGenHoles)
    /\ config \in GenConfigs
    /\ storage \in Storages
    /\ InitRest(MaxGenCalls)

InitOrder ==
    /\ InitHoles(OrderPoints, MaxHoles)
    /\ config = ValidConfig
    /\ storage = NoStorage
    /\ InitRest(MaxCalls)

InitPocket ==
    /\ InitHoles(GenPoints, MaxGenHoles)
    /\ config \in PocketConfigs
    /\ storage = NoStorage
    /\ InitRest(MaxGenCalls)

InitRepeat ==
    /\ InitHoles(GenPoints, MaxGenHoles)
    /\ config \in RepeatConfigs
    /\ storage \in Storages
    /\ InitRest(MaxCalls)

\* the form: a valid through hole, a counterbore with a depth that does not
\* parse and a counterbore no larger than the hole, and a valid counterbore
Forms ==
    {MkForm("through", Num(2500), Num(5000), NaN, NaN, Num(10000)),
     MkForm("counterbore", Num(5000), NaN, Num(5000), Num(-2500), NaN),
     MkForm("counterbore", Num(2500), Num(5000), Num(5000), Num(1000), NaN)}

\* what the array form can hold: dimensions and spacings the handler accepts
\* and rejects, origins on and off zero, and an origin that does not parse
\* the array form during edits: an origin that does not parse
EditArrayInputs == {ArrayArgs(1, 2, Num(10000), Num(10000), NaN, Num(0))}

\* what the fields single-x and single-y can hold
SinglePoints == {<<Num(5000), Num(10000)>>, <<NaN, Num(0)>>}

\* what the pattern form can hold: a count and a radius the handler accepts,
\* and a count it rejects
PatternInputs ==
    {PatternArgs(2, Num(10000), Num(0), Num(0), Num(90 * Unit)),
     PatternArgs(1, Num(10000), Num(0), Num(0), Num(0))}

\* the hole form during edits
EditForms == {MkForm("through", Num(2500), Num(5000), NaN, NaN, Num(10000))}

ArrayInputs ==
    {ArrayArgs(1, 1, Num(10000), Num(10000), Num(0), Num(0)),
     ArrayArgs(2, 3, Num(10000), Num(10000), Num(0), Num(0)),
     ArrayArgs(2, 2, Num(2500), Num(15000), Num(-5000), Num(7500)),
     ArrayArgs(1, 2, Num(10000), Num(10000), NaN, Num(0)),
     ArrayArgs(0, 2, Num(10000), Num(10000), Num(0), Num(0)),
     ArrayArgs(2, 1, Num(0), Num(10000), Num(0), Num(0)),
     ArrayArgs(1, 1, Num(10000), NaN, Num(0), Num(0))}

\* position of the holes restored from the saved state
LoadedPoints == {<<10004, -4>>}

\* the application after cobot.init: the saved holes are loaded, nothing is
\* in the history yet
InitUI ==
    /\ InitHoles(LoadedPoints, MaxLoaded)
    /\ config = ValidConfig
    /\ storage = NoStorage
    /\ limit = MaxUISteps
    /\ clock = 0
    /\ ncalls = 0
    /\ ret = NoOutcome
    /\ prev = NoOutcome
    /\ optLog = <<>>
    /\ \E form \in Forms : ui = [NoUI EXCEPT !.form = form, !.listed = Len(holes)]

\* a session of edits: the stored hole list is loaded
InitEdit ==
    /\ InitHoles(LoadedPoints, MaxLoaded)
    /\ config = ValidConfig
    /\ storage = NoStorage
    /\ limit = MaxEdits
    /\ clock = 0
    /\ ncalls = 0
    /\ ret = NoOutcome
    /\ prev = NoOutcome
    /\ optLog = <<>>
    /\ \E form \in EditForms : ui = [NoUI EXCEPT !.form = form, !.listed = Len(holes)]

InitValidate ==
    /\ heap = <<MkHole(<<0, 0>>, 1)>>
    /\ holes = <<1>>
    /\ config \in ValidateConfigs
    /\ storage = NoStorage
    /\ InitRest(MaxGenCalls)

-----------------------------------------------------------------------------
(* Engine calls.  A call that diverges never returns: nothing follows it. *)

CanCall == ncalls < limit /\ ret.kind # "diverge"

\* toolpath.generate(holes, config) on the caller's hole array
CallGenerate ==
    /\ CanCall
    /\ \E out \in {Generate(Given(holes), heap, config, storage, clock)} :
            /\ ret' = out
            /\ holes' = out.arg
    /\ clock' = clock + 1
    /\ ncalls' = ncalls + 1
    /\ prev' = ret
    /\ UNCHANGED <<heap, config, storage, limit, optLog, ui>>

\* toolpath.generate(undefined, config)
CallGenerateNoHoles ==
    /\ CanCall
    /\ ret' = Generate(Absent, heap, config, storage, clock)
    /\ clock' = clock + 1
    /\ ncalls' = ncalls + 1
    /\ prev' = ret
    /\ UNCHANGED <<heap, holes, config, storage, limit, optLog, ui>>

\* toolpath._optimizeHoleOrder(holes) on the caller's hole array
CallOptimizeOrder ==
    /\ CanCall
    /\ \E out \in {OptimizeHoleOrder(holes, heap)} :
            /\ ret' = Outcome("optimizeOrder", "return", "", <<>>, out.ret, <<>>, out.arg)
            /\ holes' = out.arg
            /\ optLog' = Append(optLog, [input |-> holes, output |-> out.ret])
    /\ ncalls' = ncalls + 1
    /\ prev' = ret
    /\ UNCHANGED <<heap, config, storage, clock, limit, ui>>

\* toolpath.validateConfig(config)
CallValidateConfig ==
    /\ CanCall
    /\ LET v == ValidateConfig(config)
       IN  ret' = Outcome("validateConfig",
                          IF v.threw THEN "throw" ELSE "return",
                          IF v.threw THEN "TypeError" ELSE "",
                          <<>>, <<>>, v.errors, holes)
    /\ ncalls' = ncalls + 1
    /\ prev' = ret
    /\ UNCHANGED <<heap, holes, config, storage, clock, limit, optLog, ui>>

-----------------------------------------------------------------------------
(* UI handlers.  A handler that never returns blocks the page. *)

CanHandle == clock < limit /\ ~ui.hung

\* the hole objects nothing refers to any more are collected
Collect(w) ==
    [w EXCEPT !.heap = [i \in 1..Len(w.holes) |-> w.heap[w.holes[i]]],
              !.holes = [i \in 1..Len(w.holes) |-> i]]

Handled(w) ==
    /\ heap' = Collect(w).heap
    /\ holes' = Collect(w).holes
    /\ ui' = w.ui
    /\ clock' = clock + 1
    /\ UNCHANGED <<config, storage, limit, ncalls, ret, prev, optLog>>

World == [heap |-> heap, holes |-> holes, ui |-> ui]

\* click on "generate array" with one of these contents of the array form
ClickGenerateArray(inputs) ==
    \E a \in inputs :
        /\ CanHandle
        /\ Len(holes) + a.rows * a.cols <= MaxUIHoles
        /\ \E w \in {HandleGenerateArray(World, a)} : Handled(w)

\* click on "add hole"
ClickAddSingleHole ==
    /\ CanHandle
    /\ Len(holes) + 1 <= MaxUIHoles
    /\ \E pt \in SinglePoints :
        \E w \in {HandleAddSingleHole(World, pt[1], pt[2])} : Handled(w)

\* click on "generate pattern"
ClickGeneratePattern ==
    \E p \in PatternInputs :
        /\ CanHandle
        /\ Len(holes) + p.count <= MaxUIHoles
        /\ \E w \in {HandleGeneratePattern(World, p)} : Handled(w)

\* click on "clear all"; the user confirms or not
ClickClearAllHoles ==
    /\ CanHandle
    /\ \E confirmed \in BOOLEAN :
        \E w \in {HandleClearAllHoles(World, confirmed)} : Handled(w)

\* click on the "select" button of an item of the hole list
ClickSelect ==
    /\ CanHandle
    /\ \E index \in 0..(ui.listed - 1) :
        \E w \in {Select(Begin(World, "select", NoArgs), index)} : Handled(w)

\* click on the "delete" button of an item of the hole list
ClickDelete ==
    /\ CanHandle
    /\ \E index \in 0..(ui.listed - 1) :
        \E w \in {RemoveHole(Begin(World, "removeHole", NoArgs), index)} : Handled(w)

\* ui.undo(), bound to Ctrl+Z
CallUndo ==
    /\ CanHandle
    /\ \E w \in {Undo(Begin(World, "undo", NoArgs))} : Handled(w)

\* ui.redo(), bound to Ctrl+Shift+Z
CallRedo ==
    /\ CanHandle
    /\ \E w \in {Redo(Begin(World, "redo", NoArgs))} : Handled(w)

\* click on "preview toolpath"
ClickPreviewToolpath ==
    /\ CanHandle
    /\ \E w \in {HandlePreviewToolpath(World, storage, clock)} : Handled(w)

\* click on "save job"; FabMo accepts the job or not
ClickSaveJob ==
    /\ CanHandle
    /\ \E submitOk \in BOOLEAN :
        \E w \in {HandleSaveJob(World, storage, clock, submitOk)} : Handled(w)

\* click on "drill now"; the user confirms or not, FabMo accepts and starts
\* the job or not
ClickDrillNow ==
    /\ CanHandle
    /\ \E confirmed \in BOOLEAN, submitOk \in BOOLEAN, runOk \in BOOLEAN :
        \E w \in {HandleDrillNow(World, storage, clock, confirmed, submitOk, runOk)} :
            Handled(w)

NextUI ==
    \/ ClickGenerateArray(ArrayInputs)
    \/ CallUndo
    \/ ClickPreviewToolpath
    \/ ClickSaveJob
    \/ ClickDrillNow

NextEdit ==
    \/ ClickGenerateArray(EditArrayInputs)
    \/ ClickAddSingleHole
    \/ ClickGeneratePattern
    \/ ClickClearAllHoles
    \/ ClickSelect
    \/ ClickDelete
    \/ CallUndo
    \/ CallRedo

SpecEdit == InitEdit /\ [][NextEdit]_vars

SpecUI == InitUI /\ [][NextUI]_vars

Next ==
    \/ CallGenerate
    \/ CallGenerateNoHoles
    \/ CallOptimizeOrder
    \/ CallValidateConfig

Spec == Init /\ [][Next]_vars
SpecOrder == InitOrder /\ [][Next]_vars
SpecValidate == InitValidate /\ [][Next]_vars
SpecPocket == InitPocket /\ [][Next]_vars
SpecRepeat == InitRepeat /\ [][Next]_vars

-----------------------------------------------------------------------------
(* Reading the outcome of the last call *)

Returned(op) == ret.op = op /\ ret.kind = "return"

\* number of positions of seq holding x
Count(seq, x) == Cardinality({i \in DOMAIN seq : seq[i] = x})

IsBanner(line) == line.kind = "comment" /\ line.op = "Hole"
IsInstr(line, op) == line.kind = "instr" /\ line.op = op
IsMotion(line) == line.kind = "instr" /\ line.op \in {"J2", "MZ", "M2", "CG"}

\* the lines of text that are hole banners, and the k-th of them
Banners(text) == {i \in 1..Len(text) : IsBanner(text[i])}
BannerAt(text, k) ==
    CHOOSE i \in Banners(text) : Cardinality({j \in Banners(text) : j <= i}) = k

\* the line that opens the initialization block (0 if there is none)
InitAt(text) ==
    IF \E i \in 1..Len(text) : text[i].op = "=== Initialization ==="
    THEN CHOOSE i \in 1..Len(text) : text[i].op = "=== Initialization ==="
    ELSE 0

\* lines of the initialization block and of the footer block
InitLen == Len(GenerateInit(ValidConfig, GetDefaultGlobalSettings))
FooterLen == Len(GenerateSBPFooter([safeZ |-> Undefined, returnHome |-> "undefined"], NoStorage))

\* the tour of the caller's holes
Tour == OptimizeHoleOrder(holes, heap).ret

\* two holes of the caller lie on the same point
Coincident ==
    \E i, j \in DOMAIN heap :
        i # j /\ heap[i].x = heap[j].x /\ heap[i].y = heap[j].y

-----------------------------------------------------------------------------
(* Tour optimization *)

\* C1: every sequence optimizeOrder returned has the length of its input and
\* holds each hole of the input exactly as often as the input does (once):
\* no hole is dropped, duplicated or invented.
C1_OptimizeOrderIsPermutation ==
    \A e \in DOMAIN optLog :
        /\ Len(optLog[e].output) = Len(optLog[e].input)
        /\ \A i \in DOMAIN optLog[e].output : optLog[e].output[i] \in DOMAIN heap
        /\ \A r \in DOMAIN heap :
                Count(optLog[e].output, r) = Count(optLog[e].input, r)

\* optimizeOrder has reordered a list in which two holes coincide
C1_Witness ==
    /\ Returned("optimizeOrder")
    /\ Len(holes) >= 3
    /\ Coincident
    /\ ret.order # holes

FromOrigin(r) == heap[r].x.n * heap[r].x.n + heap[r].y.n * heap[r].y.n

\* C20: for a list of two or more holes the first hole optimizeOrder returned
\* is at the smallest distance from the origin, and every hole before it in
\* the input is strictly farther: among tied holes the first of the input wins.
C20_SeedNearestOriginFirstWins ==
    \A e \in DOMAIN optLog :
        Len(optLog[e].input) >= 2 =>
            LET input == optLog[e].input
                first == optLog[e].output[1]
            IN  /\ \E j \in DOMAIN input : input[j] = first
                /\ \A j \in DOMAIN input : FromOrigin(first) <= FromOrigin(input[j])
                /\ \A j \in DOMAIN input :
                        FromOrigin(input[j]) = FromOrigin(first) =>
                            \E i \in 1..j : input[i] = first

\* optimizeOrder was given a list whose first hole is not nearest to the
\* origin and in which two holes at different points tie for nearest
C20_Witness ==
    /\ Returned("optimizeOrder")
    /\ Len(holes) >= 3
    /\ ret.order[1] # holes[1]
    /\ FromOrigin(holes[1]) > FromOrigin(ret.order[1])
    /\ \E j \in DOMAIN holes :
            /\ holes[j] # ret.order[1]
            /\ FromOrigin(holes[j]) = FromOrigin(ret.order[1])
            /\ heap[holes[j]].x # heap[ret.order[1]].x

\* squared Euclidean distance between two holes of the caller, in units of
\* 1 / Unit
Between(a, b) ==
    (heap[b].x.n - heap[a].x.n) * (heap[b].x.n - heap[a].x.n)
        + (heap[b].y.n - heap[a].y.n) * (heap[b].y.n - heap[a].y.n)

\* the caller's holes at the same points, with other diameters, depths and
\* display numbers: each differs from hole to hole, the numbers run backwards
Relabelled ==
    [r \in DOMAIN heap |->
        [heap[r] EXCEPT !.diameter = Num(1000 * r),
                        !.depth = Num(1000 * (Len(heap) + 1 - r)),
                        !.number = Len(heap) + 1 - r]]

\* C21: at every position i >= 2 of a sequence optimizeOrder returned, the
\* hole is no farther from the hole at position i - 1 than any hole at a
\* position >= i; and the same list with other diameters, depths and display
\* numbers on the same points gets the same sequence.
C21_NearestUnvisitedNext ==
    \A e \in DOMAIN optLog :
        LET output == optLog[e].output
        IN  /\ \A i \in 2..Len(output) :
                \A j \in i..Len(output) :
                    Between(output[i - 1], output[i]) <= Between(output[i - 1], output[j])
            /\ OptimizeHoleOrder(optLog[e].input, Relabelled).ret = output

\* optimizeOrder reordered a list of three or more holes, and at some
\* position of the tour two unvisited holes at different points were equally
\* near
C21_Witness ==
    /\ Returned("optimizeOrder")
    /\ Len(ret.order) >= 3
    /\ ret.order # holes
    /\ \E i \in 2..Len(ret.order) :
        \E j \in (i + 1)..Len(ret.order) :
            /\ Between(ret.order[i - 1], ret.order[j]) = Between(ret.order[i - 1], ret.order[i])
            /\ Between(ret.order[i], ret.order[j]) > 0

-----------------------------------------------------------------------------
(* Program generation *)

\* C2: a generate call on an empty or absent hole list (the caller's array is
\* empty or not there after the call) has thrown "No holes to drill" and
\* returned no program text, for every config.
C2_EmptyInputRejected ==
    (ret.op = "generate" /\ ret.arg = <<>>) =>
        /\ ret.kind = "throw"
        /\ ret.error = "No holes to drill"
        /\ ret.text = <<>>

\* generate was called on an empty list with a config that yields a program
\* for any non-empty list
C2_Witness ==
    /\ ret.op = "generate"
    /\ ret.kind = "throw"
    /\ holes = <<>>
    /\ config.defined
    /\ config.type = "through"
    /\ IsNum(config.depth)

\* C3: a program generate returned is, in this order, the header comments,
\* the initialization block (spindle start, then the move to safe Z), one
\* banner-headed operation block per hole in the order of the tour, and the
\* footer (retract, spindle stop, return home, END as the last line); every
\* hole banner and every motion of a hole lies between the two.
C3_ProgramLayout ==
    Returned("generate") =>
        LET text == ret.text
            init == InitAt(text)
            ops == init + InitLen
            footer == Len(text) - FooterLen + 1
        IN  /\ init > 1
            /\ \A i \in 1..(init - 1) : text[i].kind = "comment" /\ ~IsBanner(text[i])
            /\ text[2].op = "CNC Cobot Workshop"
            /\ ops <= footer
            /\ \E i, j \in init..(ops - 1) :
                    /\ i < j
                    /\ IsInstr(text[i], "C6")
                    /\ IsInstr(text[j], "JZ")
            /\ Cardinality(Banners(text)) = Len(holes)
            /\ Len(holes) > 0 => IsBanner(text[ops])
            /\ \A k \in 1..Len(holes) :
                    /\ BannerAt(text, k) >= ops
                    /\ BannerAt(text, k) < footer
                    /\ text[BannerAt(text, k)].args[2] = FormatSBPNumber(heap[Tour[k]].x)
                    /\ text[BannerAt(text, k)].args[3] = FormatSBPNumber(heap[Tour[k]].y)
            /\ \A i \in 1..(footer - 1) : IsMotion(text[i]) => i > ops
            /\ text[footer] = Blank
            /\ text[footer + 1].op = "Cleanup"
            /\ IsInstr(text[footer + 2], "JZ")
            /\ IsInstr(text[footer + 3], "C7")
            /\ text[footer + 4] = Instr("J2", <<Lit("0"), Lit("0")>>, "Return to home position")
            /\ text[Len(text)] = Instr("END", <<>>, "")
            /\ \A i \in 1..(Len(text) - 1) : ~IsInstr(text[i], "END")

\* generate returned a program for two holes at different points
C3_Witness ==
    /\ Returned("generate")
    /\ Len(holes) >= 2
    /\ heap[holes[1]].x # heap[holes[2]].x
    /\ config.type = "pocket"

\* C4: the banner of the k-th operation block of a returned program carries
\* the number k and the coordinates of the k-th hole of the tour, whatever
\* that hole's place in the input list and its display number.
C4_BannerNumbersTour ==
    Returned("generate") =>
        \A k \in 1..Len(holes) :
            /\ k <= Cardinality(Banners(ret.text))
            /\ ret.text[BannerAt(ret.text, k)].args =
                    <<IntArg(k), FormatSBPNumber(heap[Tour[k]].x),
                      FormatSBPNumber(heap[Tour[k]].y)>>

\* generate returned a program whose first block drills a hole that is not
\* the first of the input list and whose display number is not 1
C4_Witness ==
    /\ Returned("generate")
    /\ Len(holes) >= 2
    /\ Tour[1] # holes[1]
    /\ heap[Tour[1]].number # 1
    /\ heap[Tour[1]].x # heap[holes[1]].x

\* C5: every JZ instruction of a returned program (initialization, end of
\* each hole operation, footer) names the declared variable safeZ.
C5_RetractsAreSymbolic ==
    Returned("generate") =>
        \A i \in 1..Len(ret.text) :
            IsInstr(ret.text[i], "JZ") => ret.text[i].args = <<Sym("safeZ")>>

\* C9: a generate or optimizeOrder call leaves the caller's hole list (the
\* same holes in the same order), the fields of the holes, the config and
\* the persisted settings and datum as they were.
C9_InputsUntouched ==
    [][(CallGenerate \/ CallGenerateNoHoles \/ CallOptimizeOrder)
            => UNCHANGED <<heap, holes, config, storage>>]_vars

\* generate returned a program for a reordered list while settings and a
\* datum are persisted
C9_Witness ==
    /\ Returned("generate")
    /\ Len(holes) >= 2
    /\ Tour # holes
    /\ storage.hasSettings
    /\ storage.hasDatum

\* the MZ target of a plunge: |depth| at three decimals, below zero for a
\* depth given with either sign
PlungeTarget(depth) ==
    MkArg("fixed", depth.n # 0,
          (2 * AbsInt(depth.n) * 1000 + depth.d * Unit) \div (2 * depth.d * Unit),
          3, "")

\* C10: with a type other than pocket and counterbore (through, blind,
\* unrecognized, absent) the operation block of the k-th hole of the tour is
\* its banner, J2 to the hole's (x, y), MZ to -|depth|, JZ to safe Z and an
\* empty line, and the program holds no M2 and no CG instruction.
C10_PlungeIsThreeInstructions ==
    (Returned("generate") /\ config.type \notin {"pocket", "counterbore"}) =>
        LET text == ret.text
            ops == InitAt(text) + InitLen
        IN  /\ Len(text) = ops - 1 + 5 * Len(holes) + FooterLen
            /\ \A k \in 1..Len(holes) :
                    LET b == ops + 5 * (k - 1)
                        hole == heap[Tour[k]]
                    IN  /\ IsBanner(text[b])
                        /\ IsInstr(text[b + 1], "J2")
                        /\ text[b + 1].args =
                                <<FormatSBPNumber(hole.x), FormatSBPNumber(hole.y)>>
                        /\ IsInstr(text[b + 2], "MZ")
                        /\ text[b + 2].args = <<PlungeTarget(config.depth)>>
                        /\ text[b + 3] = Instr("JZ", <<Sym("safeZ")>>, "Retract to safe Z")
                        /\ text[b + 4] = Blank
            /\ \A i \in 1..Len(text) :
                    ~IsInstr(text[i], "M2") /\ ~IsInstr(text[i], "CG")

\* generate returned a plunge program for an unrecognized type and a depth
\* given as a positive number
C10_Witness ==
    /\ Returned("generate")
    /\ config.type = "slot"
    /\ config.depth.n > 0
    /\ Len(holes) >= 1

C14_GenerateAlwaysReturns ==
    (ret.op = "generate" /\ ret.arg # <<>> /\ config.defined) =>
        /\ ret.kind = "return"
        /\ ret.text # <<>>

\* the value of a setting for this call: the config's own number when the
\* config supplies one, the host default otherwise
Supplied(field) ==
    IF config[field].t = "num" THEN config[field]
    ELSE GetGlobalSettings(storage)[field]

\* C16: the safe-Z height, the feed rate and the plunge rate declared and set
\* in the initialization block, and the height of the footer's retract, are
\* the config's own value whenever the config supplies a number for the
\* field, whatever the number, and the host default only when it does not.
C16_ConfigValueOverridesDefault ==
    Returned("generate") =>
        LET text == ret.text
            init == InitAt(text)
            footer == Len(text) - FooterLen + 1
        IN  /\ text[init + 1] = Decl("safeZ", FormatSBPNumber(Supplied("safeZ")))
            /\ text[init + 2] = Decl("plungeRate", FormatSBPNumber(Supplied("plungeRate")))
            /\ text[init + 3] = Decl("feedRate", FormatSBPNumber(Supplied("feedRate")))
            /\ text[init + 6].args = <<FormatSBPNumber(Supplied("feedRate")),
                                       FormatSBPNumber(Supplied("feedRate"))>>
            /\ text[init + 7].args[3] = FormatSBPNumber(Supplied("plungeRate"))
            /\ text[footer + 2].args = <<FormatSBPNumber(Supplied("safeZ"))>>

\* a field of a line that holds no number (a reference to a declared
\* variable, an empty field), or a number rendered by toFixed(3)
FormattedField(arg) ==
    \/ arg.k = "sym"
    \/ arg = Lit("")
    \/ arg.k = "fixed" /\ arg.d = 3
    \/ arg.k = "NaN"

\* C17: every field of every declaration and instruction line of a returned
\* program that holds a number (coordinate, depth, rate, safe-Z height,
\* spindle delay) was rendered by the 3-decimal formatter.
C17_NumbersHaveThreeDecimals ==
    Returned("generate") =>
        \A i \in 1..Len(ret.text) :
            ret.text[i].kind \in {"decl", "instr"} =>
                \A j \in 1..Len(ret.text[i].args) : FormattedField(ret.text[i].args[j])

-----------------------------------------------------------------------------
(* Pocket and counterbore operations *)

\* ceil(depth / min(0.5 * diameter, 0.25)) for a diameter and a depth that
\* are whole multiples of 1 / Unit
PassCount(diameter, depth) ==
    LET twiceCap == IF diameter.n < Unit \div 2 THEN diameter.n ELSE Unit \div 2
    IN  -((-(2 * depth.n)) \div twiceCap)

\* -(depth / numPasses) * pass at three decimals
PassTarget(depth, numPasses, pass) ==
    MkArg("fixed", TRUE,
          (2 * depth.n * pass * 1000 + numPasses * Unit) \div (2 * numPasses * Unit),
          3, "")

\* lines of the operation block of a pocket of numPasses passes: the banner,
\* the pass count, the move to the centre, four lines per pass, the return
\* to the centre, the retract and an empty line
PocketBlockLen(numPasses) == 4 * numPasses + 6

\* C11: for a pocket with diameter > 0 and depth > 0 the block of every hole
\* announces ceil(depth / min(0.5 * diameter, 0.25)) passes and holds exactly
\* that many; pass k cuts and circles at -(depth / numPasses) * k, no pass is
\* deeper than the cap, and the last pass is at -depth.
C11_PocketPassesEqual ==
    (/\ Returned("generate")
     /\ config.type = "pocket"
     /\ config.diameter.t = "num" /\ config.diameter.n > 0
     /\ config.depth.t = "num" /\ config.depth.n > 0) =>
        LET text == ret.text
            ops == InitAt(text) + InitLen
            numPasses == PassCount(config.diameter, config.depth)
        IN  /\ numPasses >= 1
            /\ 2 * config.depth.n <=
                    numPasses * (IF config.diameter.n < Unit \div 2
                                 THEN config.diameter.n ELSE Unit \div 2)
            /\ PassTarget(config.depth, numPasses, numPasses) =
                    PlungeTarget(config.depth)
            /\ Cardinality({i \in 1..Len(text) : text[i].op = "Depth pass"})
                    = numPasses * Len(holes)
            /\ \A k \in 1..Len(holes) :
                    LET b == ops + PocketBlockLen(numPasses) * (k - 1)
                    IN  /\ IsBanner(text[b])
                        /\ text[b + 1].op = "Pocket hole"
                        /\ text[b + 1].args = <<Raw(Num(numPasses * Unit))>>
                        /\ \A pass \in 1..numPasses :
                                LET l == b + 3 + 4 * (pass - 1)
                                    target == PassTarget(config.depth, numPasses, pass)
                                IN  /\ text[l].op = "Depth pass"
                                    /\ text[l].args = <<IntArg(pass), target>>
                                    /\ IsInstr(text[l + 1], "M2")
                                    /\ text[l + 1].args[3] = target
                                    /\ IsInstr(text[l + 3], "CG")
                                    /\ text[l + 3].args[7] = target

\* generate returned the pockets of diameter 0.5 and depth 1.0: four passes
\* of 0.25
C11_Witness ==
    /\ Returned("generate")
    /\ config.type = "pocket"
    /\ config.diameter = Num(5000)
    /\ config.depth = Num(10000)
    /\ Len(holes) >= 1
    /\ \E i \in 1..Len(ret.text) :
            /\ ret.text[i].op = "Depth pass"
            /\ ret.text[i].args = <<IntArg(4), MkArg("fixed", TRUE, 1000, 3, "")>>
    /\ \E i \in 1..Len(ret.text) :
            /\ ret.text[i].op = "Depth pass"
            /\ ret.text[i].args = <<IntArg(1), MkArg("fixed", TRUE, 250, 3, "")>>

\* the pocket sequence of a counterbore at a hole: _generatePocketHole on
\* cbDiameter and cbDepth
CounterborePocket(hole) ==
    GeneratePocketHole(hole, [diameter |-> config.cbDiameter,
                              depth |-> config.cbDepth,
                              type |-> "pocket"]).lines

\* a counterbore field counts as present when it is a number other than 0
\* (the code's test is config.cbDiameter && config.cbDepth)
CounterborePresent == Truthy(config.cbDiameter) /\ Truthy(config.cbDepth)

\* C12: for type counterbore with cbDiameter and cbDepth present, the block
\* of every hole is its banner, the pilot plunge on the base depth (J2 to the
\* hole, MZ to -|depth|, JZ to safe Z), and only then the pocket sequence
\* computed from cbDiameter and cbDepth, centred on the same hole.
C12_CounterborePilotThenPocket ==
    (Returned("generate") /\ config.type = "counterbore" /\ CounterborePresent) =>
        LET text == ret.text
            ops == InitAt(text) + InitLen
        IN  /\ \A k \in 1..Len(holes) :
                    LET hole == heap[Tour[k]]
                        pocket == CounterborePocket(hole)
                        b == ops + (8 + Len(pocket)) * (k - 1)
                    IN  /\ IsBanner(text[b])
                        /\ text[b + 1] = Comment("Drilling pilot hole", <<>>, "")
                        /\ IsInstr(text[b + 2], "J2")
                        /\ text[b + 2].args =
                                <<FormatSBPNumber(hole.x), FormatSBPNumber(hole.y)>>
                        /\ IsInstr(text[b + 3], "MZ")
                        /\ text[b + 3].args = <<PlungeTarget(config.depth)>>
                        /\ text[b + 4] = Instr("JZ", <<Sym("safeZ")>>, "Retract to safe Z")
                        /\ text[b + 5] = Blank
                        /\ text[b + 6] = Comment("Counterbore pocket", <<>>, "")
                        /\ SubSeq(text, b + 7, b + 6 + Len(pocket)) = pocket
                        /\ text[b + 7 + Len(pocket)] = Blank
                        /\ IsInstr(pocket[2], "J2")
                        /\ pocket[2].args =
                                <<FormatSBPNumber(hole.x), FormatSBPNumber(hole.y)>>
                        /\ config.cbDiameter.n > 0 =>
                                /\ pocket[1].args =
                                    <<Raw(Num(PassCount(config.cbDiameter,
                                                        MathAbs(config.cbDepth)) * Unit))>>
                                /\ Len(pocket) + 2 =
                                    PocketBlockLen(PassCount(config.cbDiameter,
                                                             MathAbs(config.cbDepth)))
            /\ Len(text) = ops - 1 + FooterLen
                    + (8 + Len(CounterborePocket(heap[1]))) * Len(holes)

\* generate returned counterbores whose pocket (diameter 0.2, depth 0.6: six
\* passes) differs from the pocket the base diameter and depth would give
C12_Witness ==
    /\ Returned("generate")
    /\ config.type = "counterbore"
    /\ config.cbDiameter = Num(2000)
    /\ config.cbDepth = Num(-6000)
    /\ config.depth = Num(5004)
    /\ Len(holes) >= 2

\* a counterbore field is missing: absent, or NaN as parseFloat reads an empty
\* form field
CounterboreMissing == config.cbDiameter.t # "num" \/ config.cbDepth.t # "num"

\* C13: for type counterbore with cbDiameter or cbDepth missing, a generate
\* call on a non-empty hole list has returned a program, and the block of
\* every hole is its banner and the pilot plunge alone (J2, MZ, JZ), with no
\* pocket instruction anywhere.
C13_CounterboreMissingFieldsPilotOnly ==
    (/\ ret.op = "generate"
     /\ ret.arg # <<>>
     /\ config.defined
     /\ config.type = "counterbore"
     /\ CounterboreMissing) =>
        /\ ret.kind = "return"
        /\ LET text == ret.text
               ops == InitAt(text) + InitLen
           IN  /\ Len(text) = ops - 1 + 6 * Len(holes) + FooterLen
               /\ \A k \in 1..Len(holes) :
                    LET b == ops + 6 * (k - 1)
                    IN  /\ IsBanner(text[b])
                        /\ text[b + 1] = Comment("Drilling pilot hole", <<>>, "")
                        /\ IsInstr(text[b + 2], "J2")
                        /\ IsInstr(text[b + 3], "MZ")
                        /\ IsInstr(text[b + 4], "JZ")
                        /\ text[b + 5] = Blank
               /\ \A i \in 1..Len(text) :
                    ~IsInstr(text[i], "M2") /\ ~IsInstr(text[i], "CG")

\* the lines of text that open a pocket sequence, and for such a line the
\* first retract to safe Z after it (0 if there is none)
PocketStarts(text) == {i \in 1..Len(text) : text[i].op = "Pocket hole"}
RetractAfter(text, s) ==
    IF \E e \in (s + 1)..Len(text) : IsInstr(text[e], "JZ")
    THEN CHOOSE e \in (s + 1)..Len(text) :
            /\ IsInstr(text[e], "JZ")
            /\ \A i \in (s + 1)..(e - 1) : ~IsInstr(text[i], "JZ")
    ELSE 0

\* the passes of the pocket sequence that opens at line s
PassesOf(text, s) ==
    {p \in (s + 1)..(RetractAfter(text, s) - 1) : text[p].op = "Depth pass"}

\* a toFixed(3) field in thousandths
Thousandths(arg) == IF arg.neg THEN -arg.n ELSE arg.n

\* the diameter the pocket sequences of the program are cut with
PocketDiameter == IF config.type = "counterbore" THEN config.cbDiameter ELSE config.diameter

\* C22: in every pocket sequence of a generated program each pass is a
\* descent at the hole centre to the pass's depth, a move to the point
\* diameter / 2 beside the centre, and a 0..360 circle about the centre at
\* that depth, and the next motion after the circle goes to the hole centre;
\* the sequence ends with its only retract to safe Z, right after the return
\* to the centre that follows the last pass, and every pass of the program
\* lies inside such a sequence, before its retract.
C22_PocketPassThenSingleRetract ==
    (Returned("generate") /\ config.type \in {"pocket", "counterbore"}) =>
        LET text == ret.text
        IN  /\ \A p \in 1..Len(text) :
                    text[p].op = "Depth pass" =>
                        \E s \in PocketStarts(text) : p \in PassesOf(text, s)
            /\ \A s \in PocketStarts(text) :
                    LET e == RetractAfter(text, s)
                        centre == text[s + 1].args
                    IN  /\ e > s
                        /\ IsInstr(text[s + 1], "J2")
                        /\ Len(centre) = 2
                        /\ PassesOf(text, s) # {}
                        /\ Cardinality(PassesOf(text, s)) * Unit = text[s].args[1].n
                        /\ \A p \in PassesOf(text, s) :
                            /\ IsInstr(text[p + 1], "M2")
                            /\ text[p + 1].args = centre \o <<text[p].args[2]>>
                            /\ IsInstr(text[p + 2], "M2")
                            /\ text[p + 2].args[2] = centre[2]
                            /\ text[p + 2].args[1].k = "fixed"
                            /\ AbsInt(20 * PocketDiameter.d
                                        * (Thousandths(text[p + 2].args[1])
                                             - Thousandths(centre[1]))
                                      - PocketDiameter.n) <= 10 * PocketDiameter.d
                            /\ IsInstr(text[p + 3], "CG")
                            /\ text[p + 3].args =
                                    centre \o <<Lit("1"), Lit("0"), Lit("360"), Lit("1"),
                                                text[p].args[2]>>
                            /\ LET next == IF p + 4 \in PassesOf(text, s)
                                            THEN p + 5 ELSE p + 4
                               IN  /\ text[next].kind = "instr"
                                   /\ text[next].op \in {"M2", "J2"}
                                   /\ SubSeq(text[next].args, 1, 2) = centre
                        /\ IsInstr(text[e - 2], "CG")
                        /\ text[e - 1] = Instr("J2", centre, "Return to center")
                        /\ text[e] = Instr("JZ", <<Sym("safeZ")>>, "Retract to safe Z")

\* generate returned pockets of three passes for two holes
C22_Witness ==
    /\ Returned("generate")
    /\ config.type = "pocket"
    /\ Len(holes) = 2
    /\ \A s \in PocketStarts(ret.text) : Cardinality(PassesOf(ret.text, s)) = 3
    /\ Cardinality(PocketStarts(ret.text)) = 2

\* C23: for a pocket of diameter 0 and depth > 0 a generate call on a
\* non-empty hole list has returned a program; it holds at least one pass per
\* hole, every pass is a descent at the hole centre, and the program has no
\* circle instruction.
C23_PointPocketPlunges ==
    (/\ ret.op = "generate"
     /\ ret.arg # <<>>
     /\ config.defined
     /\ config.type = "pocket"
     /\ config.diameter = Num(0)
     /\ config.depth.t = "num" /\ config.depth.n > 0) =>
        /\ ret.kind = "return"
        /\ \A i \in 1..Len(ret.text) : ~IsInstr(ret.text[i], "CG")
        /\ Cardinality(PocketStarts(ret.text)) = Len(holes)
        /\ \A s \in PocketStarts(ret.text) :
            /\ PassesOf(ret.text, s) # {}
            /\ \A p \in PassesOf(ret.text, s) :
                /\ IsInstr(ret.text[p + 1], "M2")
                /\ ret.text[p + 1].args = ret.text[s + 1].args \o <<ret.text[p].args[2]>>

\* the depth the pocket sequences of the program are cut to
PocketDepth == IF config.type = "counterbore" THEN config.cbDepth ELSE config.depth

\* validateConfig returns the empty list for the config
Accepted == ~ValidateConfig(config).threw /\ ValidateConfig(config).errors = <<>>

\* the toFixed(3) field is -depth at three decimals
IsMinus(arg, depth) ==
    /\ arg.k = "fixed"
    /\ IsNum(depth)
    /\ 2 * AbsInt(Thousandths(arg) * depth.d * Unit + 1000 * depth.n) <= depth.d * Unit

\* C26: for every config that validateConfig accepts, a generate call of
\* type pocket or counterbore on a hole list returns, and the pocket
\* sequence of every hole has at least one pass, each pass deeper than the
\* one before, the last one at -depth (at -cbDepth for a counterbore).
C26_AcceptedConfigPocketPasses ==
    (/\ ret.op = "generate" /\ ret.kind # "throw"
     /\ config.type \in {"pocket", "counterbore"}
     /\ Accepted) =>
        /\ ret.kind = "return"
        /\ Cardinality(PocketStarts(ret.text)) = Len(holes)
        /\ \A s \in PocketStarts(ret.text) :
            LET passes == PassesOf(ret.text, s)
                depthOf(p) == Thousandths(ret.text[p].args[2])
            IN  /\ passes # {}
                /\ \A p \in passes : depthOf(p) < 0
                /\ \A p, q \in passes : p < q => depthOf(q) < depthOf(p)
                /\ \E p \in passes :
                    /\ \A q \in passes : q <= p
                    /\ IsMinus(ret.text[p].args[2], PocketDepth)

\* generate returned the counterbores of an accepted config, each with a
\* pocket of three passes
C26_Witness ==
    /\ Returned("generate")
    /\ config.type = "counterbore"
    /\ Accepted
    /\ Len(holes) = 2
    /\ \A s \in PocketStarts(ret.text) : Cardinality(PassesOf(ret.text, s)) = 3
    /\ Cardinality(PocketStarts(ret.text)) = 2

-----------------------------------------------------------------------------
(* Validation *)

\* present and > 0
Positive(v) == v.t = "num" /\ v.n > 0

\* the constraints of a config
DiameterOk(cfg) == Positive(cfg.diameter)
DepthOk(cfg) == Positive(cfg.depth)
CbDiameterOk(cfg) ==
    /\ cfg.cbDiameter.t = "num"
    /\ cfg.diameter.t = "num"
    /\ cfg.cbDiameter.n * cfg.diameter.d > cfg.diameter.n * cfg.cbDiameter.d
CbDepthOk(cfg) == Positive(cfg.cbDepth)

\* C6: validateConfig returned the empty list exactly when diameter and depth
\* are present and > 0 and, for type counterbore, cbDiameter is present and
\* strictly greater than diameter and cbDepth is present and > 0; for the
\* other types the counterbore fields do not count.
C6_ValidIffConstraints ==
    Returned("validateConfig") =>
        (ret.errors = <<>>
            <=> /\ DiameterOk(config)
                /\ DepthOk(config)
                /\ config.type = "counterbore" =>
                        CbDiameterOk(config) /\ CbDepthOk(config))

\* validateConfig rejected a counterbore exactly as wide as the hole whose
\* other fields are valid
C6_Witness ==
    /\ Returned("validateConfig")
    /\ config.type = "counterbore"
    /\ config.cbDiameter = config.diameter
    /\ DiameterOk(config) /\ DepthOk(config) /\ CbDepthOk(config)
    /\ ret.errors # <<>>

\* the violated constraints of a config, read in the validator's favour: a
\* field that is 0 or NaN counts as not present, and cbDiameter is held
\* against diameter only when diameter is a number
Violations(cfg) ==
    {c \in {"diameter", "depth", "cbDiameter", "cbDepth"} :
        \/ c = "diameter" /\ ~DiameterOk(cfg)
        \/ c = "depth" /\ ~DepthOk(cfg)
        \/ /\ c = "cbDiameter"
           /\ cfg.type = "counterbore"
           /\ (~Truthy(cfg.cbDiameter) \/ (cfg.diameter.t = "num" /\ ~CbDiameterOk(cfg)))
        \/ c = "cbDepth" /\ cfg.type = "counterbore" /\ ~CbDepthOk(cfg)}

\* C7: a validateConfig call has returned, whatever config it was given (no
\* config at all included), a list with one entry per violated constraint.
C7_NeverRaisesReportsAll ==
    ret.op = "validateConfig" =>
        /\ ret.kind = "return"
        /\ Len(ret.errors) = Cardinality(Violations(config))

-----------------------------------------------------------------------------
(* Drill Press application *)

\* the calls of one engine method the last handler made, as positions in
\* ui.calls
CallsOf(op) == {i \in 1..Len(ui.calls) : ui.calls[i].op = op}

ProgramHandlers == {"handlePreviewToolpath", "handleSaveJob", "handleDrillNow"}

\* C18: a handler that produces a program calls generate only with a
\* non-empty hole list and after validateConfig returned an empty list for
\* the same config; when validateConfig reports problems the handler does not
\* call generate and shows an error notification listing those problems.
C18_GenerateOnlyAfterValidation ==
    ui.handler \in ProgramHandlers =>
        /\ \A i \in CallsOf("generate") :
            /\ Len(ui.calls[i].holes) > 0
            /\ \E j \in CallsOf("validateConfig") :
                /\ j < i
                /\ ui.calls[j].kind = "return"
                /\ ui.calls[j].errors = <<>>
                /\ ui.calls[j].cfg = ui.calls[i].cfg
        /\ \A j \in CallsOf("validateConfig") :
            ui.calls[j].errors # <<>> =>
                /\ CallsOf("generate") = {}
                /\ ui.machine = <<>>
                /\ \E k \in 1..Len(ui.notices) :
                    /\ ui.notices[k].type = "error"
                    /\ ui.notices[k].errors = ui.calls[j].errors

\* "drill now" validated the form, generated a program for the holes of an
\* array and started it
C18_Witness ==
    /\ ui.handler = "handleDrillNow"
    /\ Len(holes) > 1
    /\ CallsOf("generate") # {}
    /\ Len(ui.machine) = 2
    /\ ui.machine[2].op = "runNext"
    /\ ui.machine[2].ok

\* v is origin + k * spacing (NaN when the origin is NaN)
IsArrayCoordinate(v, origin, k, spacing) ==
    IF IsNum(origin) /\ IsNum(spacing)
    THEN /\ IsNum(v)
         /\ v.n * origin.d * spacing.d
                = (origin.n * spacing.d + k * spacing.n * origin.d) * v.d
    ELSE v.t = "nan"

RequestsOf(op) == {i \in 1..Len(ui.machine) : ui.machine[i].op = op}

\* C27: runJob asks the machine to run the next job only after its own
\* submitJob call completed successfully; when the submission fails, runJob
\* rejects with the error of the submission (the handler reports it) and no
\* run request is issued.
C27_RunOnlyAfterSubmitted ==
    ui.handler = "handleDrillNow" =>
        /\ \A i \in RequestsOf("runNext") :
            /\ i > 1
            /\ ui.machine[i - 1].op = "submitJob"
            /\ ui.machine[i - 1].ok
        /\ \A i \in RequestsOf("submitJob") :
            ~ui.machine[i].ok =>
                /\ RequestsOf("runNext") = {}
                /\ ui.notices =
                        <<[message |-> "Failed to start drilling", type |-> "error",
                           errors |-> <<"submitJob error">>]>>

\* "drill now" generated a program, FabMo refused the job, and the handler
\* reported the failure
C27_Witness ==
    /\ ui.handler = "handleDrillNow"
    /\ RequestsOf("submitJob") = {1}
    /\ ~ui.machine[1].ok
    /\ ui.machine[1].text # <<>>
    /\ Len(ui.notices) = 1

\* C28: a job reaches the machine (submitJob, runNext) only with the
\* program text a successful generate returned in the same handler
\* invocation: when the hole list is empty, validateConfig reports a problem,
\* generate throws, or the user declines "drill now", the handler sends
\* nothing to the machine.
C28_JobOnlyFromGeneratedProgram ==
    /\ ui.machine # <<>> => ui.handler \in {"handleSaveJob", "handleDrillNow"}
    /\ \A i \in RequestsOf("submitJob") :
        \E j \in CallsOf("generate") :
            /\ ui.calls[j].kind = "return"
            /\ ui.calls[j].text = ui.machine[i].text
            /\ ui.machine[i].text # <<>>
    /\ RequestsOf("runNext") # {} => RequestsOf("submitJob") # {}
    /\ (\A j \in CallsOf("generate") : ui.calls[j].kind # "return") => ui.machine = <<>>

\* "save job" on a list whose holes lost their coordinates in an undo:
\* generate threw and nothing was submitted
C28_Witness ==
    /\ ui.handler = "handleSaveJob"
    /\ \E j \in CallsOf("generate") : ui.calls[j].kind = "throw"
    /\ ui.machine = <<>>
    /\ Len(ui.notices) = 1

-----------------------------------------------------------------------------
(* The hole list under edits, undo and redo *)

\* C24: after any sequence of addHole, removeHole, clearAllHoles,
\* generateArray, generateCirclePattern, loadHoles, undo and redo, the hole
\* at index i of the list (counted from 0) has display number i + 1.
C24_NumbersFollowPositions ==
    \A i \in 1..Len(holes) : heap[holes[i]].number = i

\* a hole was deleted in front of another one, which was renumbered
C24_Witness ==
    /\ ui.handler = "removeHole"
    /\ ui.error = ""
    /\ ui.historyIndex >= 1
    /\ Len(holes) >= 1
    /\ LET before == ui.history[ui.historyIndex]
           n == Len(holes)
       IN  /\ Len(before) = n + 1
           /\ before[n + 1] = [heap[holes[n]] EXCEPT !.number = n + 1]

\* the holes of the list, by value
Values(w) == [i \in 1..Len(w.holes) |-> w.heap[w.holes[i]]]

\* the world after the step
WorldAfter == [heap |-> heap', holes |-> holes', ui |-> ui']

\* the step is one edit that ran to its end: addHole, removeHole,
\* clearAllHoles, or one generateArray or generateCirclePattern call
IsEdit ==
    /\ ui'.handler \in {"addHole", "removeHole", "clearAllHoles",
                        "generateArray", "generateCirclePattern"}
    /\ ui'.error = ""
    /\ ui'.history # ui.history

\* C25: after any single edit (addHole, removeHole, clearAllHoles, or one
\* generateArray or generateCirclePattern call), the first edit of a session
\* included, one undo restores the hole list exactly as it was before that
\* edit and completes without error.
C25_UndoRevertsLastEdit ==
    [][IsEdit =>
        /\ ~Raised(Undo(WorldAfter))
        /\ Values(Undo(WorldAfter)) = Values(World)]_vars

\* C29: after any sequence of hole selections, addHole, removeHole,
\* clearAllHoles, loadHoles, undo and redo, selectedHoleIndex is -1 or the
\* index of a hole of the list.
C29_SelectionIsAHole ==
    ui.selectedHoleIndex = -1 \/ ui.selectedHoleIndex \in 0..(Len(holes) - 1)

\* the step is an undo or a redo that changed the hole list
Changed(handler) == ui'.handler = handler /\ Values(WorldAfter) # Values(World)

\* C30: historyIndex stays between -1 and history.length - 1; an undo that
\* changes the hole list, followed at once by a redo, restores exactly the
\* list before the undo; and an edit made after an undo discards the redo
\* branch, so that a redo following it changes nothing.
C30_HistoryIsLinear ==
    [][/\ ui'.historyIndex \in -1..(Len(ui'.history) - 1)
       /\ Changed("undo") => Values(Redo(WorldAfter)) = Values(World)
       /\ (IsEdit /\ ui.handler = "undo") =>
                /\ Redo(WorldAfter) = WorldAfter
                /\ ui'.historyIndex = Len(ui'.history) - 1]_vars
====
